---- MODULE Spec2Model ----
(***************************************************************************)
(* State-machine model of the "unseen" Vulkan capture layer (src/lib.rs).  *)
(*                                                                         *)
(* One action per exported entry point.  Every entry point that touches    *)
(* layer state takes the LAYER_DATA mutex first and keeps the guard until  *)
(* it returns, so calls are serialised by that mutex and each call is one  *)
(* atomic action.  The next layer / driver is modelled by the accounting   *)
(* record drv (which objects it has handed out and not seen destroyed).    *)
(***************************************************************************)
EXTENDS Integers, Sequences, FiniteSets, TLC

(***************************************************************************)
(* Bounds of the model.                                                    *)
(***************************************************************************)
MaxThreads == 2
MaxInstances == 2
MaxDevices == 1
MaxHandles == 2
MaxFrames == 2
MaxPairs == 1
MaxCounted == 3

(***************************************************************************)
(* Program constants.                                                      *)
(***************************************************************************)
FirstHandle == 4096
LoaderInstanceCreateInfo == 47
MinImages == 2

Threads == 1..MaxThreads
InstanceHandles == 1..MaxInstances
DeviceHandles == 1..MaxDevices

(***************************************************************************)
(* Option<T> is a set with at most one element; HashMap<K,V> a function.   *)
(***************************************************************************)
None == {}
Some(x) == {x}
IsSome(o) == o # {}
Unwrap(o) == CHOOSE x \in o : TRUE

EmptyMap == [k \in {} |-> 0]
Insert(m, key, v) == [k \in DOMAIN m \cup {key} |-> IF k = key THEN v ELSE m[k]]
Remove(m, key) == [k \in DOMAIN m \ {key} |-> m[k]]

Max(a, b) == IF a >= b THEN a ELSE b
Min(a, b) == IF a <= b THEN a ELSE b

(***************************************************************************)
(* The process environment.  A variable is unset, a decimal number, or     *)
(* some other text.  Directory names are sequences of tokens.              *)
(***************************************************************************)
Unset == [kind |-> "unset", n |-> 0]
Num(k) == [kind |-> "num", n |-> k]
Text == [kind |-> "text", n |-> 0]

ProcessEnvs ==
    { [VK_CAPTURE_OUTPUT_DIR |-> None, VK_CAPTURE_FORMAT |-> "unset",
       VK_CAPTURE_FREQUENCY |-> Unset, VK_CAPTURE_MAX_FRAMES |-> Unset],
      [VK_CAPTURE_OUTPUT_DIR |-> Some(<<"shots", ".png">>), VK_CAPTURE_FORMAT |-> "png",
       VK_CAPTURE_FREQUENCY |-> Num(2), VK_CAPTURE_MAX_FRAMES |-> Text],
      [VK_CAPTURE_OUTPUT_DIR |-> Some(<<"out">>), VK_CAPTURE_FORMAT |-> "PNG",
       VK_CAPTURE_FREQUENCY |-> Num(0), VK_CAPTURE_MAX_FRAMES |-> Num(1)] }

\* str::parse::<u32>() followed by .ok()
ParseU32(v) == IF v.kind = "num" /\ v.n >= 0 THEN Some(v.n) ELSE None

UnwrapOr(o, d) == IF IsSome(o) THEN Unwrap(o) ELSE d

VARIABLES
    env,         \* the process environment
    reentrant,   \* whether locking LAYER_DATA again by its holder is granted
    status,      \* status[t]: "running", "capturing", "deadlocked" or "blocked"
    locks,       \* locks[t]: the locks thread t holds and the one it waits for
    LAYER_DATA,  \* Option<InstanceData>: the single registry slot
    COUNTER,     \* generate_unique_handle's static counter
    drv,         \* the next layer's accounting of live objects
    live,        \* instances the application created and has not destroyed
    live_devices, \* devices the application created and has not destroyed
    live_surfaces, \* surface handle |-> its instance, from create to destroy of either
    trial,       \* the arguments and results of the functions of SpecFunctions
    capturing,   \* Option: the thread inside vkQueuePresentKHR's capture, and its swapchain
    issued,      \* the handles generate_unique_handle returned, in order, and for what
    log          \* one record per presented swapchain found in the maps

vars == <<env, reentrant, trial, capturing, status, locks, LAYER_DATA, COUNTER, drv, live, live_devices,
          live_surfaces, issued, log>>

\* impl Default for LayerConfig
LayerConfig_default ==
    [output_dir |-> UnwrapOr(env.VK_CAPTURE_OUTPUT_DIR, <<".", "/", "captured_frames">>),
     output_format |-> IF env.VK_CAPTURE_FORMAT = "png" THEN "Png" ELSE "Ppm",
     capture_frequency |-> UnwrapOr(ParseU32(env.VK_CAPTURE_FREQUENCY), 1),
     max_frames |-> UnwrapOr(ParseU32(env.VK_CAPTURE_MAX_FRAMES), 0)]

(***************************************************************************)
(* Threads and the LAYER_DATA lock.                                        *)
(***************************************************************************)
\* The thread, if any, that holds LAYER_DATA forever.
LockDead == \E t \in Threads : status[t] = "deadlocked"
\* Thread t can make a call: it is not stuck in one.  Threads differ in nothing
\* but their names, so the call is made by the running thread of the least name.
Running(t) ==
    /\ status[t] = "running"
    /\ \A u \in Threads : status[u] = "running" => t <= u
\* LAYER_DATA.lock() returning at once whoever is inside a capture.
LayerDataFree_NoLock == TRUE

\* LAYER_DATA.lock().unwrap() as the first statement of a handler (lib.rs 392,
\* 534, 815, 922): it returns only while no other thread holds the guard.
LayerDataFree == ~IsSome(capturing)

\* Thread t can make a call that starts with LAYER_DATA.lock() and get the
\* guard: no thread holds it for ever, and none is inside a capture.
CanLock(t) == Running(t) /\ ~LockDead /\ LayerDataFree

\* The layer's three kinds of lock: the registry LAYER_DATA, an instance's
\* devices map and a device's swapchains map.  A thread between two calls
\* holds none; a thread stuck in a call keeps what it held and waits.
Holding(held, wants) == [held |-> held, wants |-> wants]

(***************************************************************************)
(* The next layer (driver).                                                *)
(***************************************************************************)
DriverErrors == {"ERROR_OUT_OF_DEVICE_MEMORY"}
DriverResults == {"SUCCESS"} \cup DriverErrors

\* What the next layer answers to a create call: its GetInstanceProcAddr knows
\* no such function ("null"), or the function it names returns `result`.
NextLayerCreate ==
    {[create |-> "null", result |-> "SUCCESS"]} \cup
    {[create |-> "fn", result |-> r] : r \in DriverResults}

\* vkGetPhysicalDeviceQueueFamilyProperties of the single physical device:
\* family 0 is compute-only, family 1 has GRAPHICS.
QueueFamilyProperties == <<{"COMPUTE", "TRANSFER"}, {"GRAPHICS", "COMPUTE", "TRANSFER"}>>
PhysicalDevice == "gpu0"

\* The smallest handle the driver has not handed out.
FreshOf(used, pool) == CHOOSE h \in pool \ used : \A g \in pool \ used : h <= g

(***************************************************************************)
(* The pNext chain of VkInstanceCreateInfo.                                *)
(***************************************************************************)
OtherStruct == [s_type |-> 1, function |-> 0, p_layer_info |-> None]
LinkStruct(info) == [s_type |-> LoaderInstanceCreateInfo, function |-> 0, p_layer_info |-> info]
Link(gipa, gdpa) == [next_get_instance_proc_addr |-> gipa, next_get_device_proc_addr |-> gdpa]

\* A type-47 structure of another function discriminant (1 is
\* VK_LOADER_DATA_CALLBACK): its union holds no link pointer, and read as one
\* it leads to whatever bytes lie there.
CallbackStruct ==
    [s_type |-> LoaderInstanceCreateInfo, function |-> 1,
     p_layer_info |-> Some(Link("callback_bytes", "callback_bytes"))]

\* The chains the loader and applications hand in, shortest first.
Chains ==
    { <<>>,
      <<OtherStruct>>,
      <<LinkStruct(None)>>,
      <<LinkStruct(Some(Link("null", "null")))>>,
      <<LinkStruct(Some(Link("next_gipa", "next_gdpa")))>>,
      <<OtherStruct, LinkStruct(Some(Link("null", "null"))),
        LinkStruct(Some(Link("next_gipa", "next_gdpa")))>> }

\* The chains above and those with a type-47 structure of another
\* discriminant, alone and before the link structure.
ChainsOfAnyFunction ==
    Chains \cup { <<CallbackStruct>>,
                  <<CallbackStruct, LinkStruct(Some(Link("next_gipa", "next_gdpa")))>> }

\* The chain walk taking the first link record there is, null pointers or not.
RECURSIVE get_chain_info_AnyRecord(_)
get_chain_info_AnyRecord(p_next) ==
    IF p_next = <<>> THEN None
    ELSE LET s == Head(p_next)
         IN IF s.s_type = LoaderInstanceCreateInfo /\ IsSome(s.p_layer_info)
            THEN Some(Unwrap(s.p_layer_info).next_get_instance_proc_addr)
            ELSE get_chain_info_AnyRecord(Tail(p_next))

\* get_chain_info: Ok(func) is Some(func), Err is None.
RECURSIVE get_chain_info(_)
get_chain_info(p_next) ==
    IF p_next = <<>> THEN None
    ELSE LET s == Head(p_next)
         IN IF /\ s.s_type = LoaderInstanceCreateInfo
               /\ IsSome(s.p_layer_info)
               /\ Unwrap(s.p_layer_info).next_get_instance_proc_addr # "null"
            THEN Some(Unwrap(s.p_layer_info).next_get_instance_proc_addr)
            ELSE get_chain_info(Tail(p_next))

(***************************************************************************)
(* Instance entry points.                                                  *)
(***************************************************************************)
InstanceData(instance, gipa, config) ==
    [instance |-> instance,
     get_instance_proc_addr |-> Some(gipa),
     destroy_instance |-> None,
     create_device |-> None,
     devices |-> EmptyMap,
     surfaces |-> EmptyMap,
     config |-> config]

\* next_create: what the next layer's GetInstanceProcAddr answers for
\* "vkCreateInstance"; result: what the next layer's vkCreateInstance returns.
\* The VkResult of vkCreateInstance:
CreateInstanceResult(chain, next_create, result) ==
    IF ~IsSome(get_chain_info(chain)) THEN "ERROR_LAYER_NOT_PRESENT"
    ELSE IF next_create = "null" THEN "ERROR_INITIALIZATION_FAILED"
    ELSE result

\* Whether vkCreateInstance reaches its call of the next layer's
\* vkCreateInstance (lib.rs 360).
CallsNextCreateInstance(chain, next_create) ==
    IsSome(get_chain_info(chain)) /\ next_create # "null"

vkCreateInstance(t, chain, next_create, result) ==
    /\ Running(t)
    /\ LET config == LayerConfig_default
           chain_info == get_chain_info(chain)
       IN IF CreateInstanceResult(chain, next_create, result) # "SUCCESS"
          THEN UNCHANGED <<status, locks, LAYER_DATA, drv, live>>
          ELSE /\ CallsNextCreateInstance(chain, next_create)
               /\ LayerDataFree
               /\ drv.instances # InstanceHandles
               /\ LET instance == FreshOf(drv.instances, InstanceHandles)
                  IN /\ drv' = [drv EXCEPT !.instances = @ \cup {instance}]
                     /\ IF LockDead
                        THEN /\ status' = [status EXCEPT ![t] = "blocked"]
                             /\ locks' = [locks EXCEPT ![t] = Holding({}, "LAYER_DATA")]
                             /\ UNCHANGED <<LAYER_DATA, live>>
                        ELSE /\ LAYER_DATA' = Some(InstanceData(instance, Unwrap(chain_info), config))
                             /\ live' = live \cup {instance}
                             /\ UNCHANGED <<status, locks>>
    /\ UNCHANGED <<env, reentrant, trial, capturing, COUNTER, issued, log, live_devices, live_surfaces>>

\* The calls vkDestroyInstance makes into the next layer: destroy_fn, if the
\* instance data it took from the slot has one (lib.rs 393-396).
DestroyInstanceCalls(instance) ==
    IF IsSome(LAYER_DATA) /\ IsSome(Unwrap(LAYER_DATA).destroy_instance)
    THEN <<[fn |-> "vkDestroyInstance", handle |-> instance]>>
    ELSE <<>>

vkDestroyInstance(t, instance) ==
    /\ CanLock(t)
    /\ instance \in live
    /\ LAYER_DATA' = None
    /\ live' = live \ {instance}
    /\ IF DestroyInstanceCalls(instance) # <<>>
       THEN /\ drv' = [drv EXCEPT !.instances = @ \ {instance}]
       ELSE /\ UNCHANGED drv
    /\ live_surfaces' = [h \in {k \in DOMAIN live_surfaces : live_surfaces[k] # instance}
                            |-> live_surfaces[h]]
    /\ UNCHANGED <<env, reentrant, trial, capturing, status, locks, COUNTER, issued, log, live_devices>>

\* A call to an entry point that locks LAYER_DATA first, made while a
\* deadlocked thread holds it: the caller waits for ever.
BlockedCall(t) ==
    /\ Running(t)
    /\ LockDead
    /\ status' = [status EXCEPT ![t] = "blocked"]
    /\ locks' = [locks EXCEPT ![t] = Holding({}, "LAYER_DATA")]
    /\ UNCHANGED <<env, reentrant, trial, capturing, LAYER_DATA, COUNTER, drv, live, issued, log, live_devices, live_surfaces>>

(***************************************************************************)
(* Device entry points.                                                    *)
(***************************************************************************)
\* The lists of queue family indices a VkDeviceCreateInfo may carry.
QueueCreateLists == {<<0>>, <<2, 0, 1>>}

\* The first listed family that exists and has GRAPHICS (lib.rs 466-480).
RECURSIVE FindGraphicsFamily(_)
FindGraphicsFamily(queue_create_infos) ==
    IF queue_create_infos = <<>> THEN None
    ELSE LET index == Head(queue_create_infos)
         IN IF /\ index < Len(QueueFamilyProperties)
               /\ "GRAPHICS" \in QueueFamilyProperties[index + 1]
            THEN Some(index)
            ELSE FindGraphicsFamily(Tail(queue_create_infos))

\* vkGetDeviceQueue(device, family, 0)
get_device_queue(device, family) == <<"queue", device, family>>

\* The device data built without the queue it found.
DeviceData_NoQueue(device, graphics_queue_family, graphics_queue, command_pool) ==
    [physical_device |-> PhysicalDevice,
     get_device_proc_addr |-> Some("next_gdpa"),
     destroy_device |-> None,
     swapchains |-> EmptyMap,
     frame_counter |-> 0,
     device |-> device,
     command_pool |-> command_pool,
     graphics_queue |-> None,
     graphics_queue_family |-> graphics_queue_family]

DeviceData(device, graphics_queue_family, graphics_queue, command_pool) ==
    [physical_device |-> PhysicalDevice,
     get_device_proc_addr |-> Some("next_gdpa"),
     destroy_device |-> None,
     swapchains |-> EmptyMap,
     frame_counter |-> 0,
     device |-> device,
     command_pool |-> command_pool,
     graphics_queue |-> graphics_queue,
     graphics_queue_family |-> graphics_queue_family]

PoolIds == 1..MaxDevices

\* next_create: the next layer's answer for "vkCreateDevice"; result: what its
\* vkCreateDevice returns; pool_result: what vkCreateCommandPool returns.
\* The VkResult of vkCreateDevice:
CreateDeviceResult(next_create, result) ==
    IF ~IsSome(LAYER_DATA) THEN "ERROR_INITIALIZATION_FAILED"
    ELSE IF next_create = "null" THEN "ERROR_INITIALIZATION_FAILED"
    ELSE result

vkCreateDevice(t, queue_create_infos, next_create, result, pool_result) ==
    /\ CanLock(t)
    /\ IF CreateDeviceResult(next_create, result) # "SUCCESS"
       THEN UNCHANGED <<LAYER_DATA, drv, live_devices>>
       ELSE /\ drv.devices # DeviceHandles
            /\ LET device == FreshOf(drv.devices, DeviceHandles)
                   graphics_queue_family == FindGraphicsFamily(queue_create_infos)
                   graphics_queue ==
                       IF IsSome(graphics_queue_family)
                       THEN Some(get_device_queue(device, Unwrap(graphics_queue_family)))
                       ELSE None
                   want_pool == IsSome(graphics_queue_family)
                   pool == FreshOf(DOMAIN drv.pools, PoolIds)
                   command_pool ==
                       IF want_pool /\ pool_result = "SUCCESS" THEN Some(pool) ELSE None
                   device_data ==
                       DeviceData(device, graphics_queue_family, graphics_queue, command_pool)
               IN /\ drv' = [drv EXCEPT
                                !.devices = @ \cup {device},
                                !.pools = IF IsSome(command_pool) THEN Insert(@, pool, 0) ELSE @]
                  /\ LAYER_DATA' = Some([Unwrap(LAYER_DATA) EXCEPT
                                            !.devices = Insert(@, device, device_data)])
                  /\ live_devices' = live_devices \cup {device}
    /\ UNCHANGED <<env, reentrant, trial, capturing, status, locks, COUNTER, live, live_surfaces, issued, log>>

\* cleanup_host_visible_images applied to driver state d: it logs the number
\* of images and releases nothing.
cleanup_host_visible_images(d, images) == d

\* for (_, swapchain_info) in swapchains { cleanup_host_visible_images(..) }
RECURSIVE cleanup_swapchains(_, _)
cleanup_swapchains(d, swapchains) ==
    IF DOMAIN swapchains = {} THEN d
    ELSE LET sc == CHOOSE k \in DOMAIN swapchains : TRUE
         IN cleanup_swapchains(cleanup_host_visible_images(d, swapchains[sc].images),
                               Remove(swapchains, sc))

\* A call into the next layer that releases an object, and its effect on the
\* next layer's accounting.
DriverCall(fn, handle) == [fn |-> fn, handle |-> handle]
ApplyCall(d, call) ==
    IF call.fn = "vkDestroyCommandPool" THEN [d EXCEPT !.pools = Remove(@, call.handle)]
    ELSE IF call.fn = "vkDestroyDevice" THEN [d EXCEPT !.devices = @ \ {call.handle}]
    ELSE IF call.fn = "vkDestroyInstance" THEN [d EXCEPT !.instances = @ \ {call.handle}]
    ELSE IF call.fn = "vkUnmapMemory" THEN [d EXCEPT !.mapped = @ \ {call.handle}]
    ELSE IF call.fn = "vkFreeMemory" THEN [d EXCEPT !.memory = @ \ {call.handle}]
    ELSE IF call.fn = "vkDestroyImage" THEN [d EXCEPT !.images = @ \ {call.handle}]
    ELSE d
RECURSIVE ApplyCalls(_, _)
ApplyCalls(d, calls) ==
    IF calls = <<>> THEN d ELSE ApplyCalls(ApplyCall(d, Head(calls)), Tail(calls))

\* The calls vkDestroyDevice makes into the next layer for a registered
\* device, in order: the command pool if there is one (lib.rs 543-553), what
\* cleanup_host_visible_images does for each swapchain (554-558: nothing),
\* then the next layer's vkDestroyDevice (560-568).
DestroyDeviceCalls(device, device_data) ==
    (IF IsSome(device_data.command_pool)
     THEN <<DriverCall("vkDestroyCommandPool", Unwrap(device_data.command_pool))>>
     ELSE <<>>)
    \o <<DriverCall("vkDestroyDevice", device)>>

vkDestroyDevice(t, device) ==
    /\ CanLock(t)
    /\ live_devices' = live_devices \ {device}
    /\ IF ~IsSome(LAYER_DATA) \/ device \notin DOMAIN Unwrap(LAYER_DATA).devices
       THEN /\ UNCHANGED <<LAYER_DATA, drv>>
       ELSE LET device_data == Unwrap(LAYER_DATA).devices[device]
            IN /\ LAYER_DATA' = Some([Unwrap(LAYER_DATA) EXCEPT !.devices = Remove(@, device)])
               /\ drv' = ApplyCalls(cleanup_swapchains(drv, device_data.swapchains),
                                    DestroyDeviceCalls(device, device_data))
    /\ UNCHANGED <<env, reentrant, trial, capturing, status, locks, COUNTER, live, live_surfaces, issued, log>>

(***************************************************************************)
(* vkGetInstanceProcAddr and vkGetDeviceProcAddr.                          *)
(***************************************************************************)
\* The match of vkGetInstanceProcAddr without the headless-surface arm.
InstanceTrampolines_NoHeadless ==
    {"vkGetInstanceProcAddr", "vkCreateInstance", "vkDestroyInstance", "vkCreateDevice",
     "vkEnumerateInstanceLayerProperties", "vkEnumerateInstanceExtensionProperties",
     "vkDestroySurfaceKHR", "vkGetPhysicalDeviceSurfaceCapabilitiesKHR",
     "vkGetPhysicalDeviceSurfaceFormatsKHR", "vkGetPhysicalDeviceSurfacePresentModesKHR",
     "vkGetPhysicalDeviceSurfaceSupportKHR"}

\* The names vkGetInstanceProcAddr answers with the layer's own functions.
InstanceTrampolines ==
    {"vkGetInstanceProcAddr", "vkCreateInstance", "vkDestroyInstance", "vkCreateDevice",
     "vkEnumerateInstanceLayerProperties", "vkEnumerateInstanceExtensionProperties",
     "vkDestroySurfaceKHR", "vkGetPhysicalDeviceSurfaceCapabilitiesKHR",
     "vkGetPhysicalDeviceSurfaceFormatsKHR", "vkGetPhysicalDeviceSurfacePresentModesKHR",
     "vkGetPhysicalDeviceSurfaceSupportKHR", "vkCreateHeadlessSurfaceEXT"}

\* The names vkGetDeviceProcAddr answers with the layer's own functions.
DeviceTrampolines ==
    {"vkGetDeviceProcAddr", "vkDestroyDevice", "vkCreateSwapchainKHR",
     "vkDestroySwapchainKHR", "vkGetSwapchainImagesKHR", "vkAcquireNextImageKHR",
     "vkQueuePresentKHR"}

\* VK_NULL_HANDLE
NullHandle == 0

\* A PFN_vkVoidFunction: None is the null pointer; a function is named by who
\* implements it and, for the next layer's, by the handle it was asked with.
Trampoline(name) == Some([by |-> "unseen", name |-> name, handle |-> NullHandle])
NextFunction(name, handle) == Some([by |-> "next", name |-> name, handle |-> handle])

\* The functions the next layer knows; it answers null for any other name.
NextLayerNames ==
    InstanceTrampolines \cup DeviceTrampolines \cup {"vkEnumeratePhysicalDevices", "vkCmdDraw"}
NextGetInstanceProcAddr(instance, name) ==
    IF name \in NextLayerNames THEN NextFunction(name, instance) ELSE None
NextGetDeviceProcAddr(device, name) ==
    IF name \in NextLayerNames THEN NextFunction(name, device) ELSE None

\* p_name: None is a null pointer, Some(name) a string.
ProcNames ==
    {None} \cup {Some(n) : n \in {"vkCreateHeadlessSurfaceEXT", "vkQueuePresentKHR",
                                  "vkEnumeratePhysicalDevices", "vkCmdDraw",
                                  "vkNoSuchFunction"}}
InstanceArgs == {NullHandle} \cup InstanceHandles
DeviceArgs == {NullHandle} \cup DeviceHandles

\* Whether the call gets as far as LAYER_DATA.lock() (lib.rs 259).
GetInstanceProcAddrLocks(instance, p_name) ==
    IsSome(p_name) /\ Unwrap(p_name) \notin InstanceTrampolines /\ instance # NullHandle

\* What vkGetInstanceProcAddr returns, once it has the lock where it needs it.
GetInstanceProcAddr(instance, p_name) ==
    IF ~IsSome(p_name) THEN None
    ELSE IF Unwrap(p_name) \in InstanceTrampolines THEN Trampoline(Unwrap(p_name))
    ELSE IF instance # NullHandle /\ IsSome(LAYER_DATA)
                                 /\ IsSome(Unwrap(LAYER_DATA).get_instance_proc_addr)
    THEN NextGetInstanceProcAddr(instance, Unwrap(p_name))
    ELSE None

\* The call changes nothing in the layer or the driver.
vkGetInstanceProcAddr(t, instance, p_name) ==
    /\ IF GetInstanceProcAddrLocks(instance, p_name) THEN CanLock(t) ELSE Running(t)
    /\ GetInstanceProcAddr(instance, p_name) \in
           {None} \cup {Trampoline(n) : n \in InstanceTrampolines}
                  \cup {NextFunction(n, instance) : n \in NextLayerNames}
    /\ UNCHANGED vars

\* Whether the call gets as far as LAYER_DATA.lock() (lib.rs 302).
GetDeviceProcAddrLocks(device, p_name) ==
    IsSome(p_name) /\ Unwrap(p_name) \notin DeviceTrampolines /\ device # NullHandle

\* What vkGetDeviceProcAddr returns, once it has the lock where it needs it.
GetDeviceProcAddr(device, p_name) ==
    IF ~IsSome(p_name) THEN None
    ELSE IF Unwrap(p_name) \in DeviceTrampolines THEN Trampoline(Unwrap(p_name))
    ELSE IF device = NullHandle THEN None
    ELSE IF ~IsSome(LAYER_DATA) THEN None
    ELSE IF device \notin DOMAIN Unwrap(LAYER_DATA).devices THEN None
    ELSE IF IsSome(Unwrap(LAYER_DATA).devices[device].get_device_proc_addr)
    THEN NextGetDeviceProcAddr(device, Unwrap(p_name))
    ELSE None

\* The call changes nothing in the layer or the driver.
vkGetDeviceProcAddr(t, device, p_name) ==
    /\ IF GetDeviceProcAddrLocks(device, p_name) THEN CanLock(t) ELSE Running(t)
    /\ GetDeviceProcAddr(device, p_name) \in
           {None} \cup {Trampoline(n) : n \in DeviceTrampolines}
                  \cup {NextFunction(n, device) : n \in NextLayerNames}
    /\ UNCHANGED vars

(***************************************************************************)
(* Fabricated handles and headless surfaces.                               *)
(***************************************************************************)
\* generate_unique_handle without the increment.
generate_unique_handle_Same(counter) == [handle |-> counter, counter |-> counter]

\* COUNTER.fetch_add(1): the value returned and the value left behind.
generate_unique_handle(counter) == [handle |-> counter, counter |-> counter + 1]

HandlesLeft == COUNTER < FirstHandle + MaxHandles

\* A handle drawn from generate_unique_handle: for what kind of object, and
\* with what requested minImageCount (0 for a surface).
Issue(handle, kind, min_image_count) ==
    [handle |-> handle, kind |-> kind, min_image_count |-> min_image_count]

\* impl Default for SurfaceData
SurfaceData_default ==
    [capabilities |->
        [min_image_count |-> 2, max_image_count |-> 3,
         current_extent |-> [width |-> 1920, height |-> 1080],
         min_image_extent |-> [width |-> 1, height |-> 1],
         max_image_extent |-> [width |-> 4096, height |-> 4096]],
     formats |-> <<"B8G8R8A8_SRGB", "R8G8B8A8_SRGB", "B8G8R8A8_UNORM", "R8G8B8A8_UNORM">>,
     present_modes |-> <<"FIFO", "MAILBOX", "IMMEDIATE">>]

vkCreateHeadlessSurfaceEXT(t, instance) ==
    /\ CanLock(t)
    /\ IF ~IsSome(LAYER_DATA) \/ Unwrap(LAYER_DATA).instance # instance
       THEN /\ UNCHANGED <<LAYER_DATA, COUNTER, issued, live_surfaces>>
       ELSE /\ HandlesLeft
            /\ LET g == generate_unique_handle(COUNTER)
               IN /\ COUNTER' = g.counter
                  /\ issued' = Append(issued, Issue(g.handle, "surface", 0))
                  /\ live_surfaces' = Insert(live_surfaces, g.handle, instance)
                  /\ LAYER_DATA' = Some([Unwrap(LAYER_DATA) EXCEPT
                                            !.surfaces = Insert(@, g.handle, SurfaceData_default)])
    /\ UNCHANGED <<env, reentrant, trial, capturing, status, locks, drv, live, log, live_devices>>

vkDestroySurfaceKHR(t, instance, surface) ==
    /\ CanLock(t)
    /\ live_surfaces' = Remove(live_surfaces, surface)
    /\ IF ~IsSome(LAYER_DATA) \/ Unwrap(LAYER_DATA).instance # instance
       THEN UNCHANGED LAYER_DATA
       ELSE LAYER_DATA' = Some([Unwrap(LAYER_DATA) EXCEPT !.surfaces = Remove(@, surface)])
    /\ UNCHANGED <<env, reentrant, trial, capturing, status, locks, COUNTER, drv, live, issued, log, live_devices>>

\* What a call that only reads the maps hands back: the VkResult, the value
\* left in the count or index output, and the array elements written.
Answer(res, n, items) == [res |-> res, n |-> n, items |-> items]

\* A lookup that takes every handle for a surface with the default data.
FindSurface_AnyHandle(surface) ==
    IF ~IsSome(LAYER_DATA) THEN [res |-> "ERROR_INITIALIZATION_FAILED", data |-> None]
    ELSE [res |-> "SUCCESS", data |-> Some(SurfaceData_default)]

\* The surface data the surface argument names, or the VkResult of the early
\* return: no instance in LAYER_DATA, or no such key in its surfaces map.
FindSurface(surface) ==
    IF ~IsSome(LAYER_DATA) THEN [res |-> "ERROR_INITIALIZATION_FAILED", data |-> None]
    ELSE IF surface \notin DOMAIN Unwrap(LAYER_DATA).surfaces
    THEN [res |-> "ERROR_SURFACE_LOST_KHR", data |-> None]
    ELSE [res |-> "SUCCESS", data |-> Some(Unwrap(LAYER_DATA).surfaces[surface])]

\* vkGetPhysicalDeviceSurfaceCapabilitiesKHR: the VkResult and what is written
\* to *pSurfaceCapabilities (None: nothing).
GetSurfaceCapabilities(surface) ==
    LET found == FindSurface(surface)
    IN IF found.res # "SUCCESS" THEN [res |-> found.res, out |-> None]
       ELSE [res |-> "SUCCESS", out |-> Some(Unwrap(found.data).capabilities)]

\* The count-probe convention of the formats and present-modes queries:
\* p_array is "null" for the probe and "array" for the fetch; capacity is the
\* value the caller left in the count, which an error leaves as it was.
CountProbe(found, list, p_array, capacity) ==
    IF found.res # "SUCCESS" THEN Answer(found.res, capacity, <<>>)
    ELSE IF p_array = "null" THEN Answer("SUCCESS", Len(list), <<>>)
    ELSE Answer("SUCCESS", Min(capacity, Len(list)), SubSeq(list, 1, Min(capacity, Len(list))))

GetSurfaceFormats(surface, p_surface_formats, capacity) ==
    LET found == FindSurface(surface)
    IN CountProbe(found, IF IsSome(found.data) THEN Unwrap(found.data).formats ELSE <<>>,
                  p_surface_formats, capacity)

GetSurfacePresentModes(surface, p_present_modes, capacity) ==
    LET found == FindSurface(surface)
    IN CountProbe(found, IF IsSome(found.data) THEN Unwrap(found.data).present_modes ELSE <<>>,
                  p_present_modes, capacity)

\* vkGetPhysicalDeviceSurfaceSupportKHR locks nothing and looks nothing up.
GetSurfaceSupport(surface) == [res |-> "SUCCESS", supported |-> TRUE]

\* The (pointer, count) arguments of a count-probe query.
ProbeArgs == {[p |-> "null", capacity |-> 0], [p |-> "array", capacity |-> 2]}

\* The four queries change nothing in the layer.
vkGetPhysicalDeviceSurfaceCapabilitiesKHR(t, surface) ==
    /\ CanLock(t)
    /\ GetSurfaceCapabilities(surface).res \in
           {"SUCCESS", "ERROR_SURFACE_LOST_KHR", "ERROR_INITIALIZATION_FAILED"}
    /\ UNCHANGED vars

vkGetPhysicalDeviceSurfaceFormatsKHR(t, surface, p_surface_formats, capacity) ==
    /\ CanLock(t)
    /\ GetSurfaceFormats(surface, p_surface_formats, capacity).res \in
           {"SUCCESS", "ERROR_SURFACE_LOST_KHR", "ERROR_INITIALIZATION_FAILED"}
    /\ UNCHANGED vars

vkGetPhysicalDeviceSurfacePresentModesKHR(t, surface, p_present_modes, capacity) ==
    /\ CanLock(t)
    /\ GetSurfacePresentModes(surface, p_present_modes, capacity).res \in
           {"SUCCESS", "ERROR_SURFACE_LOST_KHR", "ERROR_INITIALIZATION_FAILED"}
    /\ UNCHANGED vars

vkGetPhysicalDeviceSurfaceSupportKHR(t, surface) ==
    /\ Running(t)
    /\ GetSurfaceSupport(surface).res = "SUCCESS"
    /\ UNCHANGED vars

(***************************************************************************)
(* Swapchains of host-visible images.                                      *)
(***************************************************************************)
Extent(w, h) == [width |-> w, height |-> h]

\* What an application asks of vkCreateSwapchainKHR.
SwapchainCreateInfos ==
    { [min_image_count |-> 1, image_format |-> "B8G8R8A8_UNORM", image_extent |-> Extent(12, 2)],
      [min_image_count |-> 3, image_format |-> "D32_SFLOAT", image_extent |-> Extent(4, 2)] }

ImageSteps ==
    {"create_image", "memory_type", "allocate_memory", "bind_image_memory", "map_memory"}

\* Where the driver fails while the images are built: nowhere, or at a step of
\* image number `at`.
NoFailure == [at |-> 0, step |-> "none"]
ImageFailures == {NoFailure, [at |-> 1, step |-> "map_memory"]}

BytesPerPixel(format) == IF format \in {"R8G8B8_SRGB", "R8G8B8_UNORM"} THEN 3 ELSE 4

\* The driver's linear layout: rows padded to a multiple of 16 bytes.
DriverRowPitch(extent, format) ==
    LET bytes == extent.width * BytesPerPixel(format)
    IN ((bytes + 15) \div 16) * 16

NextId(S) == IF S = {} THEN 1 ELSE 1 + CHOOSE m \in S : \A x \in S : x <= m

\* The body of the `for i in 0..image_count` loop of create_host_visible_images
\* from image i on: [res, images, drv].  An error returns at once (the `?`
\* operator); nothing created so far is released.
RECURSIVE create_images_from(_, _, _, _, _, _, _)
create_images_from(i, image_count, extent, format, fail, images, d) ==
    IF i >= image_count THEN [res |-> "SUCCESS", images |-> images, drv |-> d]
    ELSE LET failing(st) == fail.at = i /\ fail.step = st
             image == NextId(d.images)
             memory == NextId(d.memory)
             d1 == [d EXCEPT !.images = @ \cup {image}]
             d2 == [d1 EXCEPT !.memory = @ \cup {memory}]
             d3 == [d2 EXCEPT !.mapped = @ \cup {memory}]
             row_pitch == DriverRowPitch(extent, format)
             host_image == [image |-> image, memory |-> memory, mapped_ptr |-> memory,
                            size |-> row_pitch * extent.height,
                            row_pitch |-> row_pitch]
             err == CHOOSE e \in DriverErrors : TRUE
         IN IF failing("create_image") THEN [res |-> err, images |-> images, drv |-> d]
            ELSE IF failing("memory_type")
            THEN [res |-> "ERROR_OUT_OF_HOST_MEMORY", images |-> images, drv |-> d1]
            ELSE IF failing("allocate_memory") THEN [res |-> err, images |-> images, drv |-> d1]
            ELSE IF failing("bind_image_memory") THEN [res |-> err, images |-> images, drv |-> d2]
            ELSE IF failing("map_memory") THEN [res |-> err, images |-> images, drv |-> d2]
            ELSE create_images_from(i + 1, image_count, extent, format, fail,
                                    Append(images, host_image), d3)

\* create_host_visible_images after its LAYER_DATA.lock() (lib.rs 998-1083).
create_host_visible_images(extent, format, image_count, fail, d) ==
    create_images_from(0, image_count, extent, format, fail, <<>>, d)

\* The image count without the lower limit of two.
ImageCount_NoFloor(min_image_count) == min_image_count

\* create_info.min_image_count.max(2)
ImageCount(min_image_count) == Max(min_image_count, MinImages)

SwapchainInfo(images, format, extent, image_count) ==
    [images |-> images, format |-> format, extent |-> extent, image_count |-> image_count]

WithDevice(device, device_data) ==
    Some([Unwrap(LAYER_DATA) EXCEPT !.devices = Insert(@, device, device_data)])

vkCreateSwapchainKHR(t, device, create_info, fail) ==
    /\ CanLock(t)
    /\ IF ~IsSome(LAYER_DATA) \/ device \notin DOMAIN Unwrap(LAYER_DATA).devices
       THEN /\ UNCHANGED <<status, locks, LAYER_DATA, COUNTER, drv, issued>>
       ELSE /\ HandlesLeft
            /\ LET device_data == Unwrap(LAYER_DATA).devices[device]
                   g == generate_unique_handle(COUNTER)
                   dummy_swapchain == g.handle
                   image_count == ImageCount(create_info.min_image_count)
                   made == create_host_visible_images(create_info.image_extent,
                               create_info.image_format, image_count, fail, drv)
                   swapchain_info == SwapchainInfo(made.images, create_info.image_format,
                                                   create_info.image_extent, image_count)
               IN /\ COUNTER' = g.counter
                  /\ issued' = Append(issued, Issue(dummy_swapchain, "swapchain",
                                                    create_info.min_image_count))
                  /\ IF ~reentrant
                     THEN \* create_host_visible_images locks LAYER_DATA, which this
                          \* thread holds: the call never returns.
                          /\ status' = [status EXCEPT ![t] = "deadlocked"]
                          /\ locks' = [locks EXCEPT ![t] =
                                          Holding({"LAYER_DATA", "devices"}, "LAYER_DATA")]
                          /\ UNCHANGED <<LAYER_DATA, drv>>
                     ELSE IF made.res # "SUCCESS"
                     THEN /\ drv' = made.drv
                          /\ UNCHANGED <<status, locks, LAYER_DATA>>
                     ELSE /\ drv' = made.drv
                          /\ LAYER_DATA' = WithDevice(device,
                                 [device_data EXCEPT
                                    !.swapchains = Insert(@, dummy_swapchain, swapchain_info)])
                          /\ UNCHANGED <<status, locks>>
    /\ UNCHANGED <<env, reentrant, trial, capturing, live, log, live_devices, live_surfaces>>

vkDestroySwapchainKHR(t, device, swapchain) ==
    /\ CanLock(t)
    /\ IF ~IsSome(LAYER_DATA) \/ device \notin DOMAIN Unwrap(LAYER_DATA).devices
       THEN UNCHANGED <<LAYER_DATA, drv>>
       ELSE LET device_data == Unwrap(LAYER_DATA).devices[device]
            IN IF swapchain \in DOMAIN device_data.swapchains
               THEN /\ LAYER_DATA' = WithDevice(device,
                           [device_data EXCEPT !.swapchains = Remove(@, swapchain)])
                    /\ drv' = cleanup_host_visible_images(drv,
                                  device_data.swapchains[swapchain].images)
               ELSE UNCHANGED <<LAYER_DATA, drv>>
    /\ UNCHANGED <<env, reentrant, trial, capturing, status, locks, COUNTER, live, issued, log, live_devices, live_surfaces>>

\* The swapchain the (device, swapchain) arguments name, if registered.
Lookup(device, swapchain) ==
    IF /\ IsSome(LAYER_DATA)
       /\ device \in DOMAIN Unwrap(LAYER_DATA).devices
       /\ swapchain \in DOMAIN Unwrap(LAYER_DATA).devices[device].swapchains
    THEN Some(Unwrap(LAYER_DATA).devices[device].swapchains[swapchain])
    ELSE None

\* The image handles vkGetSwapchainImagesKHR writes: images[0..count-1].image
ImageHandles(images, count) == [i \in 1..count |-> images[i].image]

\* The values callers leave in *pSwapchainImageCount before a fetch.
Capacities == {1, 3}

\* vkGetSwapchainImagesKHR: p_images is "null" for the count probe and "array"
\* for the fetch; capacity is the value the caller left in
\* *pSwapchainImageCount, which an error leaves as it was.
GetSwapchainImages(device, swapchain, p_images, capacity) ==
    LET found == Lookup(device, swapchain)
    IN IF ~IsSome(found) THEN Answer("ERROR_INITIALIZATION_FAILED", capacity, <<>>)
       ELSE LET images == Unwrap(found).images
                count == Min(capacity, Len(images))
            IN IF p_images = "null"
               THEN Answer("SUCCESS", Len(images), <<>>)
               ELSE Answer("SUCCESS", count, ImageHandles(images, count))

\* The call changes nothing in the layer or the driver.
vkGetSwapchainImagesKHR(t, device, swapchain, p_images, capacity) ==
    /\ CanLock(t)
    /\ GetSwapchainImages(device, swapchain, p_images, capacity).res \in
           {"SUCCESS", "ERROR_INITIALIZATION_FAILED"}
    /\ UNCHANGED vars

\* The index without the reduction modulo the image count.
AcquireIndex_NoWrap(frame_counter, image_count) == frame_counter

\* frame_counter.load() % swapchain_info.image_count
AcquireIndex(frame_counter, image_count) == frame_counter % image_count

\* vkAcquireNextImageKHR: n is the value written to *pImageIndex (0 stands for
\* "nothing written" when the result is an error).
AcquireNextImage(device, swapchain) ==
    LET found == Lookup(device, swapchain)
    IN IF ~IsSome(found) THEN Answer("ERROR_INITIALIZATION_FAILED", 0, <<>>)
       ELSE Answer("SUCCESS",
                   AcquireIndex(Unwrap(LAYER_DATA).devices[device].frame_counter,
                                Unwrap(found).image_count),
                   <<>>)

\* The call changes nothing in the layer or the driver.
vkAcquireNextImageKHR(t, device, swapchain) ==
    /\ CanLock(t)
    /\ AcquireNextImage(device, swapchain).res \in {"SUCCESS", "ERROR_INITIALIZATION_FAILED"}
    /\ UNCHANGED vars

(***************************************************************************)
(* Present-time capture.                                                   *)
(***************************************************************************)
SupportedFormats ==
    {"B8G8R8A8_SRGB", "B8G8R8A8_UNORM", "R8G8B8A8_SRGB", "R8G8B8A8_UNORM",
     "R8G8B8_SRGB", "R8G8B8_UNORM"}

\* The decimal digits of n, most significant first.
RECURSIVE Decimal(_)
Decimal(n) == IF n < 10 THEN <<n>> ELSE Append(Decimal(n \div 10), n % 10)

\* format!("{:06}", n)
RECURSIVE ZeroPad(_, _)
ZeroPad(digits, width) ==
    IF Len(digits) >= width THEN digits ELSE ZeroPad(<<0>> \o digits, width)

DigitChars == <<"0", "1", "2", "3", "4", "5", "6", "7", "8", "9">>
Chars(digits) == [i \in 1..Len(digits) |-> DigitChars[digits[i] + 1]]

\* format!("{}/frame_{:06}.{}", output_dir, frame_num, extension), as tokens
FrameFilename(output_dir, frame_num, extension) ==
    output_dir \o <<"/", "frame_">> \o Chars(ZeroPad(Decimal(frame_num), 6))
               \o <<extension>>

\* format!("P6\n{} {}\n255\n", width, height).len()
PpmHeaderLen(width, height) == 3 + Len(Decimal(width)) + 1 + Len(Decimal(height)) + 1 + 4

\* The conversion taking every format for a four-byte one.
convert_host_image_to_rgb_AnyFormat(host_image, extent, format) ==
    Some(extent.height * extent.width * 3)

\* The conversion keeping the fourth byte of every pixel.
convert_host_image_to_rgb_Rgba(host_image, extent, format) ==
    IF format \in SupportedFormats THEN Some(extent.height * extent.width * 4) ELSE None

\* convert_host_image_to_rgb: Some(number of bytes pushed), or None.  Every
\* supported format pushes 3 bytes per pixel of each of the height rows.
convert_host_image_to_rgb(host_image, extent, format) ==
    IF format \in SupportedFormats THEN Some(extent.height * extent.width * 3) ELSE None

\* save_ppm_frame: Ok(file_size) is Some(file_size); an I/O error is None.
save_ppm_frame(filename, pixels_len, width, height, write_ok) ==
    IF write_ok
    THEN [written |-> Some(filename), size |-> PpmHeaderLen(width, height) + pixels_len]
    ELSE [written |-> None, size |-> 0]

\* filename.replace(".png", ".ppm")
ReplacePng(filename) == [i \in 1..Len(filename) |->
                            IF filename[i] = ".png" THEN ".ppm" ELSE filename[i]]

save_png_frame(filename, pixels_len, width, height, write_ok) ==
    save_ppm_frame(ReplacePng(filename), pixels_len, width, height, write_ok)

\* Where the driver fails in the barrier: "none" or one of these.
BarrierSteps ==
    <<"vkAllocateCommandBuffers", "vkBeginCommandBuffer", "vkEndCommandBuffer",
      "vkQueueSubmit", "vkQueueWaitIdle">>
BarrierFailures == {"none", "vkQueueSubmit"}

\* The prefix of BarrierSteps up to and including the failing call.
RECURSIVE CallsUpTo(_, _)
CallsUpTo(steps, failing) ==
    IF steps = <<>> THEN <<>>
    ELSE IF Head(steps) = failing THEN <<failing>>
    ELSE <<Head(steps)>> \o CallsUpTo(Tail(steps), failing)

\* The barrier submitted on the queue whether or not there is a command pool.
ensure_host_visibility_barrier_NoPoolCheck(device_data, d, fail) ==
    [res |-> IF fail = "none" THEN "Ok" ELSE "Err", drv |-> d, stuck |-> FALSE,
     calls |-> IF fail = "none" THEN BarrierSteps \o <<"vkFreeCommandBuffers">>
               ELSE CallsUpTo(BarrierSteps, fail)]

\* ensure_host_visibility_barrier: [res, drv, calls, stuck].  With a command
\* pool and a queue it locks LAYER_DATA (held by the caller, vkQueuePresentKHR)
\* and then records, submits and waits for the barrier; an error returns at
\* once (`?`), before vkFreeCommandBuffers.
ensure_host_visibility_barrier(device_data, d, fail) ==
    IF IsSome(device_data.command_pool) /\ IsSome(device_data.graphics_queue)
    THEN IF ~reentrant
         THEN [res |-> "NO_RETURN", drv |-> d, calls |-> <<>>, stuck |-> TRUE]
         ELSE LET pool == Unwrap(device_data.command_pool)
                  allocated == [d EXCEPT !.pools[pool] = @ + 1]
              IN IF fail = "none"
                 THEN [res |-> "Ok", drv |-> d, stuck |-> FALSE,
                       calls |-> BarrierSteps \o <<"vkFreeCommandBuffers">>]
                 ELSE IF fail = "vkAllocateCommandBuffers"
                 THEN [res |-> "Err", drv |-> d, stuck |-> FALSE,
                       calls |-> CallsUpTo(BarrierSteps, fail)]
                 ELSE [res |-> "Err", drv |-> allocated, stuck |-> FALSE,
                       calls |-> CallsUpTo(BarrierSteps, fail)]
    ELSE [res |-> "Ok", drv |-> d, calls |-> <<>>, stuck |-> FALSE]

\* The guards alive in vkQueuePresentKHR's loops when it calls
\* capture_host_visible_frame: layer_data_guard (lib.rs 922), devices (938)
\* and swapchain_map (944).
HeldInCapture == {"LAYER_DATA", "devices", "swapchains"}

\* What one presented frame came to: which swapchain, its frame number, how
\* the capture ended, the file written (path and size in bytes), if any, and
\* the locks the presenting thread held meanwhile.
LogEntry(swapchain, frame_num, outcome, path, size) ==
    [swapchain |-> swapchain, frame_num |-> frame_num, outcome |-> outcome,
     path |-> path, size |-> size, held |-> HeldInCapture]

\* The capture that takes the last image for an image index out of range.
capture_host_visible_frame_Clamped(device_data, swapchain, swapchain_info, image_index, frame_num, config, d, pair) ==
    LET host_image == swapchain_info.images[Min(image_index + 1, Len(swapchain_info.images))]
        barrier == ensure_host_visibility_barrier(device_data, d, pair.barrier)
        rgb_data == convert_host_image_to_rgb(host_image, swapchain_info.extent,
                                              swapchain_info.format)
        extension == IF config.output_format = "Ppm" THEN ".ppm" ELSE ".png"
        filename == FrameFilename(config.output_dir, frame_num, extension)
        result == save_ppm_frame(filename, Unwrap(rgb_data), swapchain_info.extent.width,
                                 swapchain_info.extent.height, pair.write_ok)
        ended(outcome, path, size) ==
            [entry |-> LogEntry(swapchain, frame_num, outcome, path, size),
             drv |-> barrier.drv, calls |-> barrier.calls, stuck |-> barrier.stuck]
    IN IF barrier.stuck THEN ended("no_return", <<>>, 0)
       ELSE IF barrier.res = "Err" THEN ended("barrier_error", <<>>, 0)
       ELSE IF ~IsSome(rgb_data) THEN ended("unsupported_format", <<>>, 0)
       ELSE IF ~IsSome(result.written) THEN ended("write_error", <<>>, 0)
       ELSE ended("written", Unwrap(result.written), result.size)

\* capture_host_visible_frame: [entry, drv, stuck].
capture_host_visible_frame(device_data, swapchain, swapchain_info, image_index, frame_num, config, d, pair) ==
    IF image_index >= Len(swapchain_info.images)
    THEN [entry |-> LogEntry(swapchain, frame_num, "bad_index", <<>>, 0),
          drv |-> d, calls |-> <<>>, stuck |-> FALSE]
    ELSE LET host_image == swapchain_info.images[image_index + 1]
             barrier == ensure_host_visibility_barrier(device_data, d, pair.barrier)
             rgb_data == convert_host_image_to_rgb(host_image, swapchain_info.extent,
                                                   swapchain_info.format)
             extension == IF config.output_format = "Ppm" THEN ".ppm" ELSE ".png"
             filename == FrameFilename(config.output_dir, frame_num, extension)
             result ==
                 IF config.output_format = "Ppm"
                 THEN save_ppm_frame(filename, Unwrap(rgb_data), swapchain_info.extent.width,
                                     swapchain_info.extent.height, pair.write_ok)
                 ELSE save_png_frame(filename, Unwrap(rgb_data), swapchain_info.extent.width,
                                     swapchain_info.extent.height, pair.write_ok)
             ended(outcome, path, size) ==
                 [entry |-> LogEntry(swapchain, frame_num, outcome, path, size),
                  drv |-> barrier.drv, calls |-> barrier.calls, stuck |-> barrier.stuck]
         IN IF barrier.stuck THEN ended("no_return", <<>>, 0)
            ELSE IF barrier.res = "Err" THEN ended("barrier_error", <<>>, 0)
            ELSE IF ~IsSome(rgb_data) THEN ended("unsupported_format", <<>>, 0)
            ELSE IF ~IsSome(result.written) THEN ended("write_error", <<>>, 0)
            ELSE ended("written", Unwrap(result.written), result.size)

\* frame_counter.fetch_add(1, Relaxed) on an AtomicU32.  The counter wraps at
\* 2^32, which no behaviour of at most MaxFrames presents comes near.
FetchAdd(frame_counter) == frame_counter + 1

\* The filters guarding the modulo by capturing nothing at frequency 0.
CaptureFilter_ZeroSkips(frame_num, config) ==
    IF config.capture_frequency = 0 THEN "skip_frequency"
    ELSE IF config.capture_frequency > 1 /\ frame_num % config.capture_frequency # 0
    THEN "skip_frequency"
    ELSE IF config.max_frames > 0 /\ frame_num >= config.max_frames
    THEN "skip_max_frames"
    ELSE "capture"

\* The filters with the frequency test inverted.
CaptureFilter_OffBeat(frame_num, config) ==
    IF config.capture_frequency > 1 /\ frame_num % config.capture_frequency = 0
    THEN "skip_frequency"
    ELSE IF config.max_frames > 0 /\ frame_num >= config.max_frames
    THEN "skip_max_frames"
    ELSE "capture"

\* The filters with the max_frames limit one frame too late.
CaptureFilter_OneMore(frame_num, config) ==
    IF config.capture_frequency > 1 /\ frame_num % config.capture_frequency # 0
    THEN "skip_frequency"
    ELSE IF config.max_frames > 0 /\ frame_num > config.max_frames
    THEN "skip_max_frames"
    ELSE "capture"

\* The two filters of vkQueuePresentKHR (lib.rs 948-958): "capture", or why not.
CaptureFilter(frame_num, config) ==
    IF config.capture_frequency > 1 /\ frame_num % config.capture_frequency # 0
    THEN "skip_frequency"
    ELSE IF config.max_frames > 0 /\ frame_num >= config.max_frames
    THEN "skip_max_frames"
    ELSE "capture"

\* The device whose swapchain map holds the handle, if any.
OwnerOf(devices, swapchain) ==
    {dev \in DOMAIN devices : swapchain \in DOMAIN devices[dev].swapchains}

\* One iteration of `for (i, &swapchain) in swapchains.iter().enumerate()`.
\* st = [data, drv, log, calls, stuck]: the instance data, the driver, the log,
\* the driver calls made so far, and whether the thread has locked itself out.
PresentOne(st, pair) ==
    LET owners == OwnerOf(st.data.devices, pair.swapchain)
    IN IF st.stuck \/ owners = {} THEN st
       ELSE LET dev == CHOOSE o \in owners : TRUE
                device_data == st.data.devices[dev]
                swapchain_info == device_data.swapchains[pair.swapchain]
                frame_num == device_data.frame_counter
                counted == [st.data EXCEPT
                              !.devices[dev].frame_counter = FetchAdd(frame_num)]
                filter == CaptureFilter(frame_num, st.data.config)
                captured == capture_host_visible_frame(device_data, pair.swapchain,
                                swapchain_info, pair.image_index, frame_num,
                                st.data.config, st.drv, pair)
            IN IF filter # "capture"
               THEN [st EXCEPT !.data = counted,
                               !.log = Append(@, LogEntry(pair.swapchain, frame_num, filter,
                                                          <<>>, 0))]
               ELSE [data |-> counted, drv |-> captured.drv,
                     log |-> Append(st.log, captured.entry),
                     calls |-> st.calls \o captured.calls, stuck |-> captured.stuck]

RECURSIVE PresentAll(_, _)
PresentAll(st, pairs) ==
    IF pairs = <<>> THEN st ELSE PresentAll(PresentOne(st, Head(pairs)), Tail(pairs))

\* What vkQueuePresentKHR returns, whatever happened to the frames.
PresentResult(st) == "SUCCESS"

SwapchainArgs == FirstHandle..(FirstHandle + MaxHandles - 1)
ImageIndexArgs == {0, 2}

\* One (swapchain, image index) pair of VkPresentInfoKHR, with what the driver
\* and the file system answer while it is captured: at most one of them fails.
PresentPairs ==
    { p \in [swapchain : SwapchainArgs, image_index : ImageIndexArgs,
             barrier : BarrierFailures, write_ok : BOOLEAN] :
        /\ p.write_ok \/ p.barrier = "none"
        /\ p.image_index = 0 \/ (p.write_ok /\ p.barrier = "none") }

\* pSwapchains[0..swapchainCount) with pImageIndices
RECURSIVE SeqsUpTo(_, _)
SeqsUpTo(S, n) ==
    IF n = 0 THEN {<<>>}
    ELSE LET shorter == SeqsUpTo(S, n - 1)
         IN shorter \cup {Append(q, x) : q \in shorter, x \in S}

\* The body of vkQueuePresentKHR once it holds LAYER_DATA and has found an
\* instance there: the loop over the presented swapchains.
QueuePresent(pairs) ==
    PresentAll([data |-> Unwrap(LAYER_DATA), drv |-> drv, log |-> log,
                calls |-> <<>>, stuck |-> FALSE], pairs)

\* How a call of vkQueuePresentKHR made now would end: with a VkResult, or
\* "NO_RETURN" when it waits for ever for LAYER_DATA.
PresentReturn(pairs) ==
    IF LockDead THEN "NO_RETURN"
    ELSE IF ~IsSome(LAYER_DATA) THEN "SUCCESS"
    ELSE IF QueuePresent(pairs).stuck THEN "NO_RETURN"
    ELSE PresentResult(QueuePresent(pairs))

vkQueuePresentKHR(t, pairs) ==
    /\ CanLock(t)
    /\ Len(log) + Len(pairs) <= MaxFrames
    /\ IF ~IsSome(LAYER_DATA)
       THEN UNCHANGED <<status, locks, LAYER_DATA, drv, log>>
       ELSE LET st == QueuePresent(pairs)
            IN /\ LAYER_DATA' = Some(st.data)
               /\ drv' = st.drv
               /\ log' = st.log
               /\ status' = IF PresentReturn(pairs) = "NO_RETURN"
                            THEN [status EXCEPT ![t] = "deadlocked"]
                            ELSE status
               /\ locks' = IF PresentReturn(pairs) = "NO_RETURN"
                           THEN [locks EXCEPT ![t] = Holding(HeldInCapture, "LAYER_DATA")]
                           ELSE locks
    /\ UNCHANGED <<env, reentrant, trial, capturing, COUNTER, live, issued, live_devices, live_surfaces>>

(***************************************************************************)
(* 32-bit and 64-bit values as little-endian sequences of bytes.           *)
(***************************************************************************)
RECURSIVE ToBytes(_, _)
ToBytes(n, k) == IF k = 0 THEN <<>> ELSE <<n % 256>> \o ToBytes(n \div 256, k - 1)

RECURSIVE Value(_)
Value(bytes) == IF bytes = <<>> THEN 0 ELSE Head(bytes) + 256 * Value(Tail(bytes))

Byte(a, p) == IF p <= Len(a) THEN a[p] ELSE 0

\* `as usize` and any other widening to k bytes
Extend(a, k) == [p \in 1..k |-> Byte(a, p)]

\* The sum of the products a[i] * b[j] with i + j = p + 1, from i on.
RECURSIVE ConvAt(_, _, _, _)
ConvAt(a, b, p, i) ==
    IF i > Len(a) \/ i > p THEN 0
    ELSE a[i] * Byte(b, p + 1 - i) + ConvAt(a, b, p, i + 1)

RECURSIVE MulFrom(_, _, _, _, _)
MulFrom(a, b, p, carry, k) ==
    IF p > k THEN <<>>
    ELSE LET sum == ConvAt(a, b, p, 1) + carry
         IN <<sum % 256>> \o MulFrom(a, b, p + 1, sum \div 256, k)

\* The low k bytes of a * b.
Mul(a, b, k) == MulFrom(a, b, 1, 0, k)

RECURSIVE AddFrom(_, _, _, _, _)
AddFrom(a, b, p, carry, k) ==
    IF p > k THEN <<>>
    ELSE LET sum == Byte(a, p) + Byte(b, p) + carry
         IN <<sum % 256>> \o AddFrom(a, b, p + 1, sum \div 256, k)

\* The low k bytes of a + b.
Add(a, b, k) == AddFrom(a, b, 1, 0, k)

\* a < b for values of the same width
RECURSIVE Less(_, _)
Less(a, b) ==
    IF a = <<>> THEN FALSE
    ELSE LET n == Len(a)
         IN IF a[n] # b[n] THEN a[n] < b[n]
            ELSE Less(SubSeq(a, 1, n - 1), SubSeq(b, 1, n - 1))

U32(n) == ToBytes(n, 4)
U32_MAX == <<255, 255, 255, 255>>

\* a * b on u32: the product modulo 2^32, or with overflow checks compiled
\* in (the default of a debug build) a panic when the product needs more
\* than 32 bits.
u32_mul(a, b, overflow_checks) ==
    IF overflow_checks /\ Mul(a, b, 8) # Extend(Mul(a, b, 4), 8)
    THEN [panic |-> TRUE, value |-> U32(0)]
    ELSE [panic |-> FALSE, value |-> Mul(a, b, 4)]

\* AtomicU32::fetch_add(1): wraps around on overflow in every build.
fetch_add(frame_counter) == Add(frame_counter, U32(1), 4)

(***************************************************************************)
(* vkNegotiateLoaderLayerInterfaceVersion.                                 *)
(***************************************************************************)
\* The negotiation that hands back the loader's version unclamped.
Negotiate_Unclamped(p_supported_version, version) ==
    IF p_supported_version = "null" \/ version = 0
    THEN [res |-> "ERROR_INITIALIZATION_FAILED", version |-> version]
    ELSE [res |-> "SUCCESS", version |-> version]

\* The VkResult and the value left in *p_supported_version, which held
\* `version` at the call.
Negotiate(p_supported_version, version) ==
    IF p_supported_version = "null"
    THEN [res |-> "ERROR_INITIALIZATION_FAILED", version |-> version]
    ELSE IF version >= 2 THEN [res |-> "SUCCESS", version |-> 2]
    ELSE IF version = 1 THEN [res |-> "SUCCESS", version |-> 1]
    ELSE [res |-> "ERROR_INITIALIZATION_FAILED", version |-> version]

vkNegotiateLoaderLayerInterfaceVersion(p_supported_version) ==
    /\ trial.function = "vkNegotiateLoaderLayerInterfaceVersion"
    /\ LET r == Negotiate(p_supported_version, trial.version)
       IN trial' = [trial EXCEPT !.version = r.version,
                                 !.negotiated = [p |-> p_supported_version,
                                                 before |-> trial.version,
                                                 res |-> r.res]]
    /\ UNCHANGED <<env, reentrant, capturing, status, locks, LAYER_DATA, COUNTER, drv, live,
                   live_devices, live_surfaces, issued, log>>

(***************************************************************************)
(* The decoder, byte by byte.                                              *)
(***************************************************************************)
\* The index of the source byte of each output channel (R, G, B) within a
\* pixel, or None for a format the decoder does not know.
Channels(format) ==
    IF format \in {"B8G8R8A8_SRGB", "B8G8R8A8_UNORM"} THEN Some(<<2, 1, 0>>)
    ELSE IF format \in {"R8G8B8A8_SRGB", "R8G8B8A8_UNORM"} THEN Some(<<0, 1, 2>>)
    ELSE IF format \in {"R8G8B8_SRGB", "R8G8B8_UNORM"} THEN Some(<<0, 1, 2>>)
    ELSE None

\* The multiplier of x in the pixel offset.
PixelStride(format) == IF format \in {"R8G8B8_SRGB", "R8G8B8_UNORM"} THEN 3 ELSE 4

\* The body of the loops at (x, y): the three offsets from mapped_ptr whose
\* bytes are pushed, in the order pushed, as 64-bit values.  row_offset and
\* the x term are products on u32, widened afterwards.
DecodePixel(x, y, row_pitch, format, overflow_checks) ==
    LET row_offset == u32_mul(U32(y), U32(row_pitch), overflow_checks)
        x_offset == u32_mul(U32(x), U32(PixelStride(format)), overflow_checks)
        pixel_offset == Add(Extend(row_offset.value, 8), Extend(x_offset.value, 8), 8)
        channels == Unwrap(Channels(format))
    IN IF row_offset.panic \/ x_offset.panic THEN [panic |-> TRUE, read |-> <<>>]
       ELSE [panic |-> FALSE,
             read |-> [c \in 1..3 |-> Add(pixel_offset, U32(channels[c]), 8)]]

NoPixel == [panic |-> FALSE, read |-> <<>>]

\* The bytes pushed for row y from pixel x on, each named by the offset it
\* was read from.
RECURSIVE RowBytes(_, _, _, _)
RowBytes(x, y, image, overflow_checks) ==
    IF x >= image.extent.width THEN <<>>
    ELSE LET px == DecodePixel(x, y, image.row_pitch, image.format, overflow_checks)
         IN [c \in 1..3 |-> Value(px.read[c])] \o RowBytes(x + 1, y, image, overflow_checks)

RECURSIVE ImageBytes(_, _, _)
ImageBytes(y, image, overflow_checks) ==
    IF y >= image.extent.height THEN <<>>
    ELSE RowBytes(0, y, image, overflow_checks) \o ImageBytes(y + 1, image, overflow_checks)

\* convert_host_image_to_rgb with its content: Some(rgb_data), or None.
rgb_data(image, overflow_checks) ==
    IF IsSome(Channels(image.format)) THEN Some(ImageBytes(0, image, overflow_checks))
    ELSE None

HostImage(format, width, height, row_pitch) ==
    [format |-> format, extent |-> [width |-> width, height |-> height],
     row_pitch |-> row_pitch]

\* Images small enough to decode whole: tightly packed and padded rows.
SmallImages ==
    { HostImage("B8G8R8A8_UNORM", 2, 2, 8), HostImage("R8G8B8A8_SRGB", 2, 2, 16),
      HostImage("R8G8B8_UNORM", 2, 2, 8), HostImage("D32_SFLOAT", 2, 2, 8) }

\* Images of which single pixels are decoded: 128 KiB rows, with 32768 and
\* 32769 of them.
LargeImages ==
    { HostImage("B8G8R8A8_UNORM", 32768, 32768, 131072),
      HostImage("B8G8R8A8_UNORM", 32768, 32769, 131072),
      HostImage("R8G8B8_UNORM", 32768, 32769, 131072) }

\* The decoder run over a whole small image.
DecodeImage(image) ==
    /\ trial.function = "convert_host_image_to_rgb"
    /\ image \in SmallImages
    /\ trial' = [trial EXCEPT !.decoded = [kind |-> "image", image |-> image, x |-> 0, y |-> 0,
                                           rgb |-> rgb_data(image, trial.overflow_checks),
                                           pixel |-> NoPixel]]
    /\ UNCHANGED <<env, reentrant, capturing, status, locks, LAYER_DATA, COUNTER, drv, live,
                   live_devices, live_surfaces, issued, log>>

\* One pass of the loop body of the decoder, at pixel (x, y) of an image.
DecodeOnePixel(image, x, y) ==
    /\ trial.function = "convert_host_image_to_rgb"
    /\ IsSome(Channels(image.format))
    /\ x < image.extent.width /\ y < image.extent.height
    /\ trial' = [trial EXCEPT !.decoded = [kind |-> "pixel", image |-> image, x |-> x, y |-> y,
                                           rgb |-> None,
                                           pixel |-> DecodePixel(x, y, image.row_pitch,
                                                                 image.format,
                                                                 trial.overflow_checks)]]
    /\ UNCHANGED <<env, reentrant, capturing, status, locks, LAYER_DATA, COUNTER, drv, live,
                   live_devices, live_surfaces, issued, log>>

\* The frame counter of a device at one present: frame_counter.fetch_add(1).
CountFrame ==
    /\ trial.function = "fetch_add"
    /\ trial' = [trial EXCEPT !.frame_counter = fetch_add(@), !.presents = @ + 1]
    /\ trial.presents < MaxCounted
    /\ UNCHANGED <<env, reentrant, capturing, status, locks, LAYER_DATA, COUNTER, drv, live,
                   live_devices, live_surfaces, issued, log>>

\* The chain walk at the head of vkCreateInstance and the VkResult that
\* follows from it, given what the function it found answers when called.
WalkChain(chain, next_create, result) ==
    /\ trial.function = "get_chain_info"
    /\ trial' = [trial EXCEPT !.chain = [walked |-> TRUE, p_next |-> chain,
                                         found |-> get_chain_info(chain),
                                         result |-> CreateInstanceResult(chain, next_create,
                                                                         result)]]
    /\ UNCHANGED <<env, reentrant, capturing, status, locks, LAYER_DATA, COUNTER, drv, live,
                   live_devices, live_surfaces, issued, log>>

(***************************************************************************)
(* The specifications.                                                     *)
(***************************************************************************)
\* The values the loader may hold in its version variable.
Versions == {0, 1, 2, 3, 2147483647}

\* The frame counters the counting starts from: every u32 is the counter of
\* a device after that many presents.
CounterStarts == {U32(0), U32(255), <<254, 255, 255, 255>>}

NoTrial ==
    [function |-> "none", version |-> 0, negotiated |-> [p |-> "none", before |-> 0, res |-> "none"],
     overflow_checks |-> FALSE, frame_counter |-> U32(0), presents |-> 0,
     chain |-> [walked |-> FALSE, p_next |-> <<>>, found |-> None, result |-> "none"],
     decoded |-> [kind |-> "none", image |-> HostImage("none", 0, 0, 0), x |-> 0, y |-> 0,
                  rgb |-> None, pixel |-> NoPixel]]

InitLayer ==
    /\ status = [t \in Threads |-> "running"]
    /\ locks = [t \in Threads |-> Holding({}, "none")]
    /\ LAYER_DATA = None
    /\ COUNTER = FirstHandle
    /\ drv = [instances |-> {}, devices |-> {}, pools |-> EmptyMap,
              images |-> {}, memory |-> {}, mapped |-> {}]
    /\ live = {}
    /\ live_devices = {}
    /\ live_surfaces = EmptyMap
    /\ issued = <<>>
    /\ log = <<>>
    /\ capturing = None

\* One of the functions above, applied to arguments of every kind, the
\* decoder in both build profiles.
InitFunctions ==
    /\ InitLayer
    /\ env \in ProcessEnvs
    /\ reentrant = FALSE
    /\ trial \in
         { [NoTrial EXCEPT !.function = "vkNegotiateLoaderLayerInterfaceVersion",
                           !.version = v] : v \in Versions }
         \cup { [NoTrial EXCEPT !.function = "convert_host_image_to_rgb",
                                !.overflow_checks = c] : c \in BOOLEAN }
         \cup { [NoTrial EXCEPT !.function = "fetch_add", !.frame_counter = f] :
                    f \in CounterStarts }
         \cup { [NoTrial EXCEPT !.function = "get_chain_info"] }

NextFunctions ==
    \/ \E p \in {"null", "valid"} : vkNegotiateLoaderLayerInterfaceVersion(p)
    \/ \E image \in SmallImages : DecodeImage(image)
    \/ \E image \in SmallImages \cup LargeImages,
          x \in {0, 1, 32767}, y \in {0, 1, 32767, 32768} : DecodeOnePixel(image, x, y)
    \/ CountFrame
    \/ \E chain \in ChainsOfAnyFunction, next \in NextLayerCreate :
           WalkChain(chain, next.create, next.result)

SpecFunctions == InitFunctions /\ [][NextFunctions]_vars

InitCommon ==
    /\ InitLayer
    /\ env \in ProcessEnvs
    /\ trial = [function |-> "none"]

\* std::sync::Mutex: locking a mutex its own thread holds never returns.
Init == InitCommon /\ reentrant = FALSE

\* The same code with the second lock of LAYER_DATA granted.
InitGranted == InitCommon /\ reentrant = TRUE

Calls(t) ==
    \/ \E chain \in Chains, next \in NextLayerCreate :
           vkCreateInstance(t, chain, next.create, next.result)
    \/ \E instance \in InstanceHandles : vkDestroyInstance(t, instance)
    \/ \E q \in QueueCreateLists, next \in NextLayerCreate, pool_result \in DriverResults :
           vkCreateDevice(t, q, next.create, next.result, pool_result)
    \/ \E device \in DeviceHandles : vkDestroyDevice(t, device)
    \/ \E instance \in InstanceHandles : vkCreateHeadlessSurfaceEXT(t, instance)
    \/ \E instance \in InstanceHandles, surface \in SwapchainArgs :
           vkDestroySurfaceKHR(t, instance, surface)
    \/ \E device \in DeviceHandles, create_info \in SwapchainCreateInfos,
           fail \in ImageFailures :
           vkCreateSwapchainKHR(t, device, create_info, fail)
    \/ \E device \in DeviceHandles, swapchain \in SwapchainArgs :
           vkDestroySwapchainKHR(t, device, swapchain)
    \/ \E device \in DeviceHandles, swapchain \in SwapchainArgs,
           p_images \in {"null", "array"}, capacity \in Capacities :
           vkGetSwapchainImagesKHR(t, device, swapchain, p_images, capacity)
    \/ \E device \in DeviceHandles, swapchain \in SwapchainArgs :
           vkAcquireNextImageKHR(t, device, swapchain)
    \/ \E pairs \in SeqsUpTo(PresentPairs, MaxPairs) : vkQueuePresentKHR(t, pairs)
    \/ \E instance \in InstanceArgs, p_name \in ProcNames :
           vkGetInstanceProcAddr(t, instance, p_name)
    \/ \E device \in DeviceArgs, p_name \in ProcNames :
           vkGetDeviceProcAddr(t, device, p_name)
    \/ \E surface \in SwapchainArgs : vkGetPhysicalDeviceSurfaceCapabilitiesKHR(t, surface)
    \/ \E surface \in SwapchainArgs, a \in ProbeArgs :
           vkGetPhysicalDeviceSurfaceFormatsKHR(t, surface, a.p, a.capacity)
    \/ \E surface \in SwapchainArgs, a \in ProbeArgs :
           vkGetPhysicalDeviceSurfacePresentModesKHR(t, surface, a.p, a.capacity)
    \/ \E surface \in SwapchainArgs : vkGetPhysicalDeviceSurfaceSupportKHR(t, surface)

Next == \E t \in Threads : Calls(t) \/ BlockedCall(t)

NextGranted == \E t \in Threads : Calls(t)

Spec == Init /\ [][Next]_vars

SpecGranted == InitGranted /\ [][NextGranted]_vars

\* ---------------------------------------------------------------------------
\* vkQueuePresentKHR in two steps, with the calls of other threads in between
\* ---------------------------------------------------------------------------

\* The presents that reach the read of a mapped image: the swapchain is in a
\* device's map, the frame passes the filters and the image index is in range.
ReachesCapture(pair) ==
    /\ IsSome(LAYER_DATA)
    /\ LET data == Unwrap(LAYER_DATA)
           owners == OwnerOf(data.devices, pair.swapchain)
       IN /\ owners # {}
          /\ LET device_data == data.devices[CHOOSE o \in owners : TRUE]
             IN /\ CaptureFilter(device_data.frame_counter, data.config) = "capture"
                /\ pair.image_index < Len(device_data.swapchains[pair.swapchain].images)

\* vkQueuePresentKHR from its LAYER_DATA.lock() to the call of
\* capture_host_visible_frame (lib.rs 922-962): the thread holds the guards of
\* LAYER_DATA, devices and the owner's swapchains, and a reference to the
\* swapchain's SwapchainInfo.
PresentLocks(t, pair) ==
    /\ CanLock(t)
    /\ Len(log) + 1 <= MaxFrames
    /\ ReachesCapture(pair)
    /\ capturing' = Some([thread |-> t, pair |-> pair,
                          device |-> CHOOSE o \in OwnerOf(Unwrap(LAYER_DATA).devices,
                                                          pair.swapchain) : TRUE])
    /\ status' = [status EXCEPT ![t] = "capturing"]
    /\ locks' = [locks EXCEPT ![t] = Holding(HeldInCapture, "none")]
    /\ UNCHANGED <<env, reentrant, trial, LAYER_DATA, COUNTER, drv, live, live_devices,
                   live_surfaces, issued, log>>

\* The rest of the call (lib.rs 946-973): the counter, the barrier, the read
\* of the mapped memory, the file, and the guards dropped at the return.
PresentReads(t) ==
    /\ IsSome(capturing)
    /\ Unwrap(capturing).thread = t
    /\ status[t] = "capturing"
    /\ IsSome(LAYER_DATA)
    /\ LET st == QueuePresent(<<Unwrap(capturing).pair>>)
       IN /\ LAYER_DATA' = Some(st.data)
          /\ drv' = st.drv
          /\ log' = st.log
          /\ status' = [status EXCEPT ![t] = IF st.stuck THEN "deadlocked" ELSE "running"]
          /\ locks' = [locks EXCEPT ![t] = IF st.stuck
                                           THEN Holding(HeldInCapture, "LAYER_DATA")
                                           ELSE Holding({}, "none")]
    /\ capturing' = IF QueuePresent(<<Unwrap(capturing).pair>>).stuck THEN capturing ELSE None
    /\ UNCHANGED <<env, reentrant, trial, COUNTER, live, issued, live_devices, live_surfaces>>

\* A handler of another thread that locks LAYER_DATA (CanLock) runs once the
\* capture has returned.
NextInterleaved ==
    \/ \E t \in Threads : Calls(t)
    \/ \E t \in Threads, pair \in PresentPairs : PresentLocks(t, pair)
    \/ \E t \in Threads : PresentReads(t)

SpecInterleaved == InitGranted /\ [][NextInterleaved]_vars

(***************************************************************************)
(* The instance registry.                                                  *)
(***************************************************************************)
\* Instance handle i is in the layer's registry.
Registered(i) == IsSome(LAYER_DATA) /\ Unwrap(LAYER_DATA).instance = i

\* C1: an instance handle is in the registry exactly when a vkCreateInstance
\* returned SUCCESS with it and no vkDestroyInstance has since been called
\* for it.  The single LAYER_DATA slot breaks this as soon as two instances
\* are alive: the second create overwrites the first, and a destroy of either
\* empties the slot.
C1_RegistryIsLive == \A i \in InstanceHandles : Registered(i) <=> i \in live

(***************************************************************************)
(* Termination of the entry points.                                        *)
(***************************************************************************)
\* C2: every call to an entry point returns; no thread waits for ever on one
\* of the layer's own locks.  vkCreateSwapchainKHR on a registered device
\* locks LAYER_DATA a second time on the same thread and never returns.
C2_EveryCallReturns == \A t \in Threads : status[t] = "running"

(***************************************************************************)
(* Fabricated handles.                                                     *)
(***************************************************************************)
\* The handles held by a registered surface or swapchain.
RegisteredSurfaces == IF IsSome(LAYER_DATA) THEN DOMAIN Unwrap(LAYER_DATA).surfaces ELSE {}
RegisteredSwapchains ==
    IF IsSome(LAYER_DATA)
    THEN UNION {DOMAIN Unwrap(LAYER_DATA).devices[d].swapchains :
                   d \in DOMAIN Unwrap(LAYER_DATA).devices}
    ELSE {}

\* C5: every fabricated surface or swapchain handle is at least 0x1000 and
\* differs from every handle issued earlier in the process, whether the
\* earlier object was destroyed since or its create failed after the draw.
C5_HandlesUnique ==
    \A i \in 1..Len(issued) :
        /\ issued[i].handle >= 4096
        /\ \A j \in 1..(i - 1) : issued[j].handle # issued[i].handle

\* C5 witness: two handles were issued, to a surface and to a swapchain; the
\* first belongs to no object any more (destroyed, or its create failed) and
\* the second is registered.
C5_Witness ==
    /\ Len(issued) = 2
    /\ {issued[1].kind, issued[2].kind} = {"surface", "swapchain"}
    /\ issued[1].handle \notin RegisteredSurfaces \cup RegisteredSwapchains
    /\ issued[2].handle \in RegisteredSurfaces \cup RegisteredSwapchains

(***************************************************************************)
(* Swapchain images.                                                       *)
(***************************************************************************)
\* C4: vkAcquireNextImageKHR on a registered swapchain of N images returns
\* SUCCESS with index = (frame counter of the owning device) mod N, so the
\* index lies in 0..N-1 and N is not 0.
C4_AcquireIndex ==
    \A device \in DeviceHandles, swapchain \in SwapchainArgs :
        IsSome(Lookup(device, swapchain)) =>
            LET N == Len(Unwrap(Lookup(device, swapchain)).images)
                counter == Unwrap(LAYER_DATA).devices[device].frame_counter
                answer == AcquireNextImage(device, swapchain)
            IN /\ N # 0
               /\ answer.res = "SUCCESS"
               /\ answer.n \in 0..(N - 1)
               /\ \E q \in 0..counter : counter = q * N + answer.n

\* C4 witness: a registered swapchain of two images whose device has counted
\* two frames, so that the index has wrapped round to 0.
C4_Witness ==
    \E device \in DeviceHandles, swapchain \in SwapchainArgs :
        /\ IsSome(Lookup(device, swapchain))
        /\ Len(Unwrap(Lookup(device, swapchain)).images) = 2
        /\ Unwrap(LAYER_DATA).devices[device].frame_counter = 2
        /\ AcquireNextImage(device, swapchain).n = 0

\* The requested minImageCount of the vkCreateSwapchainKHR that drew handle h.
Requested(h) ==
    LET i == CHOOSE k \in 1..Len(issued) : issued[k].handle = h
    IN issued[i].min_image_count

\* C6: for a swapchain created with requested minImageCount m, the count probe
\* of vkGetSwapchainImagesKHR reports max(m, 2), and the fetch with an array
\* of that capacity returns SUCCESS with exactly max(m, 2) pairwise distinct,
\* non-null image handles.
C6_SwapchainImages ==
    \A device \in DeviceHandles, swapchain \in SwapchainArgs :
        IsSome(Lookup(device, swapchain)) =>
            LET m == Requested(swapchain)
                want == IF m > 2 THEN m ELSE 2
                probe == GetSwapchainImages(device, swapchain, "null", 0)
                fetch == GetSwapchainImages(device, swapchain, "array", want)
            IN /\ probe.res = "SUCCESS" /\ probe.n = want
               /\ fetch.res = "SUCCESS" /\ fetch.n = want
               /\ Len(fetch.items) = want
               /\ \A i \in 1..want : fetch.items[i] # 0
               /\ \A i, j \in 1..want : i # j => fetch.items[i] # fetch.items[j]

\* C6 witness: a registered swapchain that was requested with one image and
\* reports two.
C6_Witness ==
    \E device \in DeviceHandles, swapchain \in SwapchainArgs :
        /\ IsSome(Lookup(device, swapchain))
        /\ Requested(swapchain) = 1
        /\ GetSwapchainImages(device, swapchain, "null", 0).n = 2

(***************************************************************************)
(* Frame files.                                                            *)
(***************************************************************************)
\* The presents of swapchain h so far, oldest first.
PresentsOf(h) == SelectSeq(log, LAMBDA e : e.swapchain = h)

\* The registered swapchains of a supported format, with their devices.
Capturable ==
    { c \in [device : DeviceHandles, swapchain : SwapchainArgs] :
        /\ IsSome(Lookup(c.device, c.swapchain))
        /\ Unwrap(Lookup(c.device, c.swapchain)).format \in SupportedFormats }

\* "<output_dir>/frame_00000n.ppm" for n < 10, in the tokens of FrameFilename.
ExpectedName(n) ==
    LayerConfig_default.output_dir
        \o <<"/", "frame_", "0", "0", "0", "0", "0", DigitChars[n + 1], ".ppm">>

\* len("P6\nW H\n255\n") + 3 * W * H
ExpectedSize(extent) ==
    PpmHeaderLen(extent.width, extent.height) + 3 * extent.width * extent.height

\* The i-th present of the sequence wrote frame_(i-1) at its full size.
WroteFrame(e, i, extent) ==
    /\ e.outcome = "written"
    /\ e.path = ExpectedName(i - 1)
    /\ e.size = ExpectedSize(extent)

\* C3 as stated: with frequency 1 and max_frames 0, after K presents of one
\* registered swapchain of a supported format, each with a valid image
\* index, exactly K files are written, frame_000000 to frame_(K-1), each of
\* len(PPM header) + 3*W*H bytes.
C3_KPresentsKFiles ==
    (LayerConfig_default.capture_frequency = 1 /\ LayerConfig_default.max_frames = 0) =>
        \A c \in Capturable :
            LET presents == PresentsOf(c.swapchain)
                extent == Unwrap(Lookup(c.device, c.swapchain)).extent
            IN (\A i \in 1..Len(presents) : presents[i].outcome # "bad_index") =>
                   \A i \in 1..Len(presents) : WroteFrame(presents[i], i, extent)

\* C3 amended: with frequency 1 and max_frames 0, when the K presents of a
\* registered swapchain of a supported format, each with a valid image index,
\* are all the presents its device has counted, the i-th of them (from 0)
\* writes frame_00000i of len(PPM header) + 3*W*H bytes, or writes nothing
\* because its barrier or its file write failed; so exactly K files are
\* written when no barrier and no write fails.
C3_KPresentsKFilesUnlessFailed ==
    (LayerConfig_default.capture_frequency = 1 /\ LayerConfig_default.max_frames = 0) =>
        \A c \in Capturable :
            LET presents == PresentsOf(c.swapchain)
                extent == Unwrap(Lookup(c.device, c.swapchain)).extent
                counted == Unwrap(LAYER_DATA).devices[c.device].frame_counter
            IN (/\ \A i \in 1..Len(presents) : presents[i].outcome # "bad_index"
                /\ counted = Len(presents)) =>
                   \A i \in 1..Len(presents) :
                       \/ WroteFrame(presents[i], i, extent)
                       \/ presents[i].outcome \in {"barrier_error", "write_error"}

\* C3 witness: frequency 1, max_frames 0, and a registered swapchain whose
\* two presents are all its device has counted and wrote frame_000000 and
\* frame_000001.
C3_Witness ==
    /\ LayerConfig_default.capture_frequency = 1
    /\ LayerConfig_default.max_frames = 0
    /\ \E c \in Capturable :
           /\ Len(PresentsOf(c.swapchain)) = 2
           /\ Unwrap(LAYER_DATA).devices[c.device].frame_counter = 2
           /\ \A i \in 1..2 : PresentsOf(c.swapchain)[i].outcome = "written"

\* How a capture that was attempted can end without a file.
CaptureFailures == {"bad_index", "barrier_error", "unsupported_format", "write_error"}

\* C8 as stated: with frequency F >= 1 and max_frames 0, a present that
\* obtains frame index n writes a file if and only if n mod F = 0.
C8_WrittenIffMultiple ==
    (LayerConfig_default.capture_frequency >= 1 /\ LayerConfig_default.max_frames = 0) =>
        \A i \in 1..Len(log) :
            log[i].outcome = "written"
                <=> log[i].frame_num % LayerConfig_default.capture_frequency = 0

\* C8 amended: with frequency F >= 1 and max_frames 0, a present that obtains
\* frame index n writes a file if and only if n mod F = 0 and the capture does
\* not fail (image index out of range, unsupported format, failed barrier or
\* failed write); when n mod F # 0 no capture is attempted.
C8_WrittenIffMultipleAndCaptured ==
    (LayerConfig_default.capture_frequency >= 1 /\ LayerConfig_default.max_frames = 0) =>
        \A i \in 1..Len(log) :
            LET multiple == log[i].frame_num % LayerConfig_default.capture_frequency = 0
            IN /\ log[i].outcome = "written"
                     <=> (multiple /\ log[i].outcome \notin CaptureFailures)
               /\ ~multiple <=> log[i].outcome = "skip_frequency"

\* C8 witness: frequency 2, max_frames 0; frame 0 was written and frame 1 was
\* skipped.
C8_Witness ==
    /\ LayerConfig_default.capture_frequency = 2
    /\ LayerConfig_default.max_frames = 0
    /\ Len(log) = 2
    /\ log[1].frame_num = 0 /\ log[1].outcome = "written"
    /\ log[2].frame_num = 1 /\ log[2].outcome = "skip_frequency"

\* C9: with max_frames = M > 0, no frame file whose frame index is >= M has
\* been written, whatever swapchains were presented.
C9_NoFileBeyondMaxFrames ==
    LayerConfig_default.max_frames > 0 =>
        \A i \in 1..Len(log) :
            log[i].outcome = "written" => log[i].frame_num < LayerConfig_default.max_frames

\* C9 witness: max_frames = 1; frame 0 was written and the present that
\* obtained frame index 1 wrote nothing.
C9_Witness ==
    /\ LayerConfig_default.max_frames = 1
    /\ Len(log) = 2
    /\ log[1].frame_num = 0 /\ log[1].outcome = "written"
    /\ log[2].frame_num = 1 /\ log[2].outcome = "skip_max_frames"

(***************************************************************************)
(* Teardown and the result of a present.                                   *)
(***************************************************************************)
\* C7: once vkDestroyInstance has returned and emptied the registry, no memory
\* mapped by the layer remains mapped and no command pool created by the
\* layer remains allocated.  vkDestroyInstance drops the instance data
\* without a driver call, so the pool of a device still alive stays.
C7_NothingLeftAfterDestroyInstance ==
    ~IsSome(LAYER_DATA) => (drv.mapped = {} /\ DOMAIN drv.pools = {})

\* C10: vkQueuePresentKHR returns SUCCESS in every state and for every input.
\* Once a thread has locked itself out inside vkCreateSwapchainKHR (C2), a
\* present on another thread waits for LAYER_DATA and returns nothing.
C10_PresentReturnsSuccess ==
    \A pairs \in SeqsUpTo(PresentPairs, MaxPairs) : PresentReturn(pairs) = "SUCCESS"

(***************************************************************************)
(* Chain info.                                                             *)
(***************************************************************************)
\* The chain holds no type-47 structure, or the link record of each one it
\* holds is absent or has both next-layer pointers null.
NoNextLink(chain) ==
    \A i \in 1..Len(chain) :
        chain[i].s_type = 47 =>
            \/ ~IsSome(chain[i].p_layer_info)
            \/ /\ Unwrap(chain[i].p_layer_info).next_get_instance_proc_addr = "null"
               /\ Unwrap(chain[i].p_layer_info).next_get_device_proc_addr = "null"

\* C11: vkCreateInstance returns ERROR_LAYER_NOT_PRESENT, does not call the
\* next layer's vkCreateInstance and leaves the registry as it was, whenever
\* the pNext chain holds no type-47 link structure or the link record's
\* next-layer pointers are null.
C11_NoLinkNoInstance ==
    [][\A t \in Threads, chain \in Chains, next \in NextLayerCreate :
          NoNextLink(chain) =>
              /\ CreateInstanceResult(chain, next.create, next.result)
                     = "ERROR_LAYER_NOT_PRESENT"
              /\ ~CallsNextCreateInstance(chain, next.create)
              /\ vkCreateInstance(t, chain, next.create, next.result) =>
                     (LAYER_DATA' = LAYER_DATA /\ live' = live /\ drv' = drv)]_vars

\* C11 witness: an instance is registered, with a device, and a
\* vkCreateInstance whose chain holds a link record of null pointers is
\* answered ERROR_LAYER_NOT_PRESENT.
C11_Witness ==
    /\ IsSome(LAYER_DATA)
    /\ DOMAIN Unwrap(LAYER_DATA).devices # {}
    /\ \E chain \in Chains :
           /\ NoNextLink(chain)
           /\ \E i \in 1..Len(chain) : chain[i].s_type = 47 /\ IsSome(chain[i].p_layer_info)
           /\ CreateInstanceResult(chain, "fn", "SUCCESS") = "ERROR_LAYER_NOT_PRESENT"

(***************************************************************************)
(* Function lookup.                                                        *)
(***************************************************************************)
\* C12: for each of the twelve instance-level intercepted names
\* vkGetInstanceProcAddr returns the layer's own non-null function in every
\* state, whatever the instance argument (null, registered or not) and
\* without waiting for LAYER_DATA.
C12_InstanceTrampolines ==
    \A name \in {"vkCreateInstance", "vkDestroyInstance", "vkCreateDevice",
                 "vkEnumerateInstanceLayerProperties",
                 "vkEnumerateInstanceExtensionProperties", "vkGetInstanceProcAddr",
                 "vkDestroySurfaceKHR", "vkGetPhysicalDeviceSurfaceCapabilitiesKHR",
                 "vkGetPhysicalDeviceSurfaceFormatsKHR",
                 "vkGetPhysicalDeviceSurfacePresentModesKHR",
                 "vkGetPhysicalDeviceSurfaceSupportKHR", "vkCreateHeadlessSurfaceEXT"},
       instance \in InstanceArgs :
        /\ ~GetInstanceProcAddrLocks(instance, Some(name))
        /\ GetInstanceProcAddr(instance, Some(name)) # None
        /\ Unwrap(GetInstanceProcAddr(instance, Some(name))).by = "unseen"
        /\ Unwrap(GetInstanceProcAddr(instance, Some(name))).name = name

\* C12 witness: a thread is locked out holding LAYER_DATA, and
\* vkCreateHeadlessSurfaceEXT looked up with a null instance is answered with
\* the layer's function.
C12_Witness ==
    /\ LockDead
    /\ GetInstanceProcAddr(NullHandle, Some("vkCreateHeadlessSurfaceEXT"))
           = Trampoline("vkCreateHeadlessSurfaceEXT")

\* The names of ProcNames that vkGetInstanceProcAddr does not intercept.
OtherInstanceNames == {n \in {Unwrap(p) : p \in ProcNames \ {None}} : n \notin InstanceTrampolines}

\* C13: for a name the layer does not intercept, vkGetInstanceProcAddr returns
\* what the next layer's vkGetInstanceProcAddr returns when the instance
\* argument is a registered instance handle, and null when it is null or not
\* a registered handle.  The code asks the next layer for any non-null
\* instance argument as long as some instance is registered.
C13_ForwardOnlyRegistered ==
    \A name \in OtherInstanceNames, instance \in InstanceArgs :
        IF instance # NullHandle /\ Registered(instance)
        THEN GetInstanceProcAddr(instance, Some(name)) = NextGetInstanceProcAddr(instance, name)
        ELSE GetInstanceProcAddr(instance, Some(name)) = None

\* The names of ProcNames that vkGetDeviceProcAddr does not intercept.
OtherDeviceNames == {n \in {Unwrap(p) : p \in ProcNames \ {None}} : n \notin DeviceTrampolines}

\* C14: vkGetDeviceProcAddr returns the layer's function for each of the seven
\* device-level intercepted names in every state; for any other name it
\* returns the next layer's vkGetDeviceProcAddr answer if vkCreateDevice
\* succeeded for the device and vkDestroyDevice was not yet called for it, and
\* null otherwise.  A device loses its registration with its instance's slot
\* (C1): when a second instance is created or the instance is destroyed.
C14_DeviceLookup ==
    /\ \A name \in {"vkGetDeviceProcAddr", "vkDestroyDevice", "vkCreateSwapchainKHR",
                    "vkDestroySwapchainKHR", "vkGetSwapchainImagesKHR",
                    "vkAcquireNextImageKHR", "vkQueuePresentKHR"},
          device \in DeviceArgs :
           GetDeviceProcAddr(device, Some(name)) = Trampoline(name)
    /\ \A name \in OtherDeviceNames, device \in DeviceArgs :
           IF device \in live_devices
           THEN GetDeviceProcAddr(device, Some(name)) = NextGetDeviceProcAddr(device, name)
           ELSE GetDeviceProcAddr(device, Some(name)) = None

(***************************************************************************)
(* Locking.                                                                *)
(***************************************************************************)
\* C15: no thread requests the registry lock while it holds the registry
\* lock, a devices-map lock or a swapchains-map lock, and no thread requests
\* a devices-map lock while it holds a swapchains-map lock.
\* vkCreateSwapchainKHR requests LAYER_DATA in create_host_visible_images
\* while it holds LAYER_DATA and the devices map.
C15_LockOrder ==
    \A t \in Threads :
        /\ locks[t].wants = "LAYER_DATA" =>
               locks[t].held \cap {"LAYER_DATA", "devices", "swapchains"} = {}
        /\ locks[t].wants = "devices" => "swapchains" \notin locks[t].held

\* C16: while vkQueuePresentKHR performs the barrier's submit and wait-idle or
\* the frame file write, the presenting thread holds none of the registry,
\* devices-map and swapchains-map locks.  The capture runs inside the loops
\* of vkQueuePresentKHR, under all three guards.
C16_CaptureOutsideLocks ==
    \A i \in 1..Len(log) :
        log[i].outcome \in {"written", "write_error"} => log[i].held = {}

(***************************************************************************)
(* Teardown of swapchains, devices and the instance.                       *)
(***************************************************************************)
\* Device d is in the devices map of the registered instance.
RegisteredDevice(d) == IsSome(LAYER_DATA) /\ d \in DOMAIN Unwrap(LAYER_DATA).devices

\* C17: when vkCreateSwapchainKHR fails while building image i, every image
\* and memory allocation made for images 0..i has been destroyed and freed
\* when it returns, and no swapchain is registered: the driver holds what it
\* held before the call.  The `?` of create_host_visible_images returns at
\* once and leaves the images and memory made so far with the driver.
C17_FailedCreateReleasesAll ==
    [][\A t \in Threads, device \in DeviceHandles,
         create_info \in SwapchainCreateInfos, fail \in ImageFailures \ {NoFailure} :
          (RegisteredDevice(device) /\ vkCreateSwapchainKHR(t, device, create_info, fail)) =>
              (drv' = drv /\ LAYER_DATA' = LAYER_DATA)]_vars

\* The images of the swapchains in a swapchains map.
ImagesOf(swapchains) ==
    UNION {{swapchains[h].images[i] : i \in 1..Len(swapchains[h].images)} :
              h \in DOMAIN swapchains}

\* C18: after vkDestroySwapchainKHR on a registered swapchain returns, the
\* swapchain is no longer registered and each of its host-visible images has
\* been unmapped, had its memory freed and been destroyed.  The swapchain is
\* removed, and cleanup_host_visible_images releases nothing.
C18_DestroySwapchainReleasesImages ==
    [][\A t \in Threads, device \in DeviceHandles, swapchain \in SwapchainArgs :
          (IsSome(Lookup(device, swapchain)) /\ vkDestroySwapchainKHR(t, device, swapchain)) =>
              /\ ~IsSome(Lookup(device, swapchain))'
              /\ \A i \in 1..Len(Unwrap(Lookup(device, swapchain)).images) :
                     LET host_image == Unwrap(Lookup(device, swapchain)).images[i]
                     IN /\ host_image.memory \notin drv'.mapped
                        /\ host_image.memory \notin drv'.memory
                        /\ host_image.image \notin drv'.images]_vars

\* Position of the first call of function fn in a sequence of calls, or 0.
FirstCall(calls, fn) ==
    IF \E k \in 1..Len(calls) : calls[k].fn = fn
    THEN CHOOSE k \in 1..Len(calls) :
             calls[k].fn = fn /\ \A j \in 1..(k - 1) : calls[j].fn # fn
    ELSE 0

\* C19: vkDestroyDevice on a registered device first tears down all of the
\* device's remaining swapchains, then destroys the command pool, and only
\* then calls the next layer's vkDestroyDevice.  The code destroys the pool
\* first and makes no call for the images of the swapchains.
C19_DestroyDeviceOrder ==
    \A device \in DeviceHandles :
        RegisteredDevice(device) =>
            LET device_data == Unwrap(LAYER_DATA).devices[device]
                calls == DestroyDeviceCalls(device, device_data)
                pool_at == FirstCall(calls, "vkDestroyCommandPool")
                last == FirstCall(calls, "vkDestroyDevice")
            IN /\ last = Len(calls)
               /\ IsSome(device_data.command_pool) => (0 < pool_at /\ pool_at < last)
               /\ \A host_image \in ImagesOf(device_data.swapchains) :
                      \E k \in 1..Len(calls) :
                          /\ calls[k] = DriverCall("vkDestroyImage", host_image.image)
                          /\ k < last
                          /\ pool_at # 0 => k < pool_at

\* C20: vkDestroyInstance on the registered instance tears down every
\* remaining device and surface and then calls the next layer's
\* vkDestroyInstance exactly once.  destroy_instance is None in every
\* InstanceData, so the next layer's vkDestroyInstance is never called.
C20_DestroyInstanceCallsNext ==
    \A instance \in InstanceHandles :
        Registered(instance) =>
            Len(SelectSeq(DestroyInstanceCalls(instance),
                          LAMBDA c : c = DriverCall("vkDestroyInstance", instance))) = 1

(***************************************************************************)
(* Surfaces.                                                               *)
(***************************************************************************)
\* C21: from the SUCCESS of vkCreateHeadlessSurfaceEXT until
\* vkDestroySurfaceKHR for the handle or vkDestroyInstance for its instance,
\* vkGetPhysicalDeviceSurfaceCapabilitiesKHR on the handle returns SUCCESS
\* with currentExtent 1920x1080, minImageCount 2 and maxImageCount 3,
\* whatever other calls happen in between.  The surfaces live in the single
\* LAYER_DATA slot (C1) and go with it when another instance is created.
C21_SurfaceCapabilitiesStay ==
    \A surface \in DOMAIN live_surfaces :
        LET answer == GetSurfaceCapabilities(surface)
        IN /\ answer.res = "SUCCESS"
           /\ IsSome(answer.out)
           /\ Unwrap(answer.out).current_extent = [width |-> 1920, height |-> 1080]
           /\ Unwrap(answer.out).min_image_count = 2
           /\ Unwrap(answer.out).max_image_count = 3

\* C22: in every state the capabilities, formats and present-modes queries
\* return ERROR_SURFACE_LOST_KHR and write nothing when the surface handle is
\* not registered (never created, destroyed, or its instance destroyed).
\* With no instance in LAYER_DATA they return ERROR_INITIALIZATION_FAILED.
C22_UnknownSurfaceIsLost ==
    \A surface \in SwapchainArgs :
        surface \notin RegisteredSurfaces =>
            /\ GetSurfaceCapabilities(surface) = [res |-> "ERROR_SURFACE_LOST_KHR", out |-> None]
            /\ \A a \in ProbeArgs :
                   /\ GetSurfaceFormats(surface, a.p, a.capacity)
                          = Answer("ERROR_SURFACE_LOST_KHR", a.capacity, <<>>)
                   /\ GetSurfacePresentModes(surface, a.p, a.capacity)
                          = Answer("ERROR_SURFACE_LOST_KHR", a.capacity, <<>>)

\* C22 as the code has it: for a surface handle that is not registered the
\* three queries write nothing, and return ERROR_SURFACE_LOST_KHR when an
\* instance is registered and ERROR_INITIALIZATION_FAILED when none is.
C22_UnknownSurfaceIsLostOrUninitialized ==
    \A surface \in SwapchainArgs :
        surface \notin RegisteredSurfaces =>
            LET res == IF IsSome(LAYER_DATA) THEN "ERROR_SURFACE_LOST_KHR"
                       ELSE "ERROR_INITIALIZATION_FAILED"
            IN /\ GetSurfaceCapabilities(surface) = [res |-> res, out |-> None]
               /\ \A a \in ProbeArgs :
                      /\ GetSurfaceFormats(surface, a.p, a.capacity)
                             = Answer(res, a.capacity, <<>>)
                      /\ GetSurfacePresentModes(surface, a.p, a.capacity)
                             = Answer(res, a.capacity, <<>>)

\* A surface that was created and destroyed while its instance stays
\* registered, next to one that is still registered.
C22_Witness ==
    /\ IsSome(LAYER_DATA)
    /\ \E gone \in SwapchainArgs, kept \in RegisteredSurfaces :
           /\ gone \notin RegisteredSurfaces
           /\ \E i \in 1..Len(issued) : issued[i].handle = gone /\ issued[i].kind = "surface"
           /\ GetSurfaceCapabilities(gone).res = "ERROR_SURFACE_LOST_KHR"
           /\ GetSurfaceCapabilities(kept).res = "SUCCESS"

(***************************************************************************)
(* Interface negotiation.                                                  *)
(***************************************************************************)
\* C23: vkNegotiateLoaderLayerInterfaceVersion called with a non-null
\* pointer to a version v >= 1 returns SUCCESS and leaves min(v, 2) in the
\* variable; called with a null pointer or with v = 0 it returns
\* ERROR_INITIALIZATION_FAILED and leaves the variable as it was.
C23_NegotiateClamps ==
    trial.negotiated.p # "none" =>
        LET call == trial.negotiated
        IN IF call.p # "null" /\ call.before >= 1
           THEN call.res = "SUCCESS" /\ trial.version = Min(call.before, 2)
           ELSE call.res = "ERROR_INITIALIZATION_FAILED" /\ trial.version = call.before

\* C23 witness: the loader offered version 3 and was left with 2.
C23_Witness ==
    /\ trial.negotiated.p = "valid"
    /\ trial.negotiated.before = 3
    /\ trial.negotiated.res = "SUCCESS"
    /\ trial.version = 2

(***************************************************************************)
(* Decoder.                                                                *)
(***************************************************************************)
\* Where the claim has the decoder read a pixel: the multiplier of x and the
\* source byte of each of R, G, B.
C24_Source(format) ==
    IF format \in {"B8G8R8A8_SRGB", "B8G8R8A8_UNORM"} THEN [bpp |-> 4, order |-> <<2, 1, 0>>]
    ELSE IF format \in {"R8G8B8A8_SRGB", "R8G8B8A8_UNORM"} THEN [bpp |-> 4, order |-> <<0, 1, 2>>]
    ELSE [bpp |-> 3, order |-> <<0, 1, 2>>]

\* y * s + bpp * x + order[c], in 64 bits.
C24_Offset(x, y, image, c) ==
    LET source == C24_Source(image.format)
    IN Add(Add(Mul(U32(y), U32(image.row_pitch), 8), Mul(U32(x), U32(source.bpp), 8), 8),
           U32(source.order[c]), 8)

\* The decoded pixel or image on trial is laid out as the claim has it.
C24_Layout ==
    LET d == trial.decoded
        w == d.image.extent.width
        h == d.image.extent.height
    IN /\ (d.kind = "image" /\ d.image.format \in SupportedFormats) =>
              /\ IsSome(d.rgb)
              /\ Len(Unwrap(d.rgb)) = 3 * w * h
              /\ \A x \in 0..(w - 1), y \in 0..(h - 1), c \in 1..3 :
                     Unwrap(d.rgb)[3 * (y * w + x) + c] = Value(C24_Offset(x, y, d.image, c))
       /\ d.kind = "pixel" =>
              /\ ~d.pixel.panic
              /\ \A c \in 1..3 : d.pixel.read[c] = C24_Offset(d.x, d.y, d.image, c)

\* C24: for an image of width w, height h and row stride s the decoder
\* returns exactly 3*w*h bytes, and pixel (x, y) of the output is the source
\* bytes (2, 1, 0) at y*s + 4x for BGRA, (0, 1, 2) at y*s + 4x for RGBA and
\* (0, 1, 2) at y*s + 3x for RGB, the offsets computed without 32-bit
\* wrap-around.
C24_DecoderLayout == C24_Layout

\* C24 for the pixels whose row offset y*s is below 2^32.
C24_DecoderLayoutBelow4GiB ==
    LET d == trial.decoded
    IN Mul(U32(d.y), U32(d.image.row_pitch), 8)
           = Extend(Mul(U32(d.y), U32(d.image.row_pitch), 4), 8)
       => C24_Layout

(***************************************************************************)
(* Frame counter.                                                          *)
(***************************************************************************)
\* C28: the frame counter of a device never decreases over any sequence of
\* presents, sequences longer than the u32 range included.
C28_CounterNeverDecreases ==
    [][~Less(trial.frame_counter', trial.frame_counter)]_vars

\* C28 for the presents that find the counter below u32::MAX.
C28_CounterGrowsBelowMax ==
    [][(trial.frame_counter' # trial.frame_counter /\ trial.frame_counter # U32_MAX)
           => Less(trial.frame_counter, trial.frame_counter')]_vars

(***************************************************************************)
(* Unsupported formats.                                                    *)
(***************************************************************************)
\* C25: a present of a swapchain whose format the decoder does not support
\* writes no file and still advances the frame counter of its device by one;
\* a present of a supported swapchain that passes the filters, with a valid
\* image index and no failing barrier or write, is captured under the frame
\* number the counter held, whatever was presented before.
C25_UnsupportedFormatCounts ==
    [][log' # log =>
       \A pair \in PresentPairs, device \in DeviceHandles :
          (/\ IsSome(Lookup(device, pair.swapchain))
           /\ \E t \in Threads : vkQueuePresentKHR(t, <<pair>>)) =>
              LET device_data == Unwrap(LAYER_DATA).devices[device]
                  swapchain_info == Unwrap(Lookup(device, pair.swapchain))
                  frame_num == device_data.frame_counter
                  e == log'[Len(log')]
              IN /\ Len(log') = Len(log) + 1
                 /\ e.swapchain = pair.swapchain /\ e.frame_num = frame_num
                 /\ Unwrap(LAYER_DATA').devices[device].frame_counter = frame_num + 1
                 /\ swapchain_info.format \notin SupportedFormats =>
                        e.outcome # "written" /\ e.path = <<>> /\ e.size = 0
                 /\ (/\ swapchain_info.format \in SupportedFormats
                     /\ CaptureFilter(frame_num, Unwrap(LAYER_DATA).config) = "capture"
                     /\ pair.image_index < Len(swapchain_info.images)
                     /\ pair.barrier = "none" /\ pair.write_ok) =>
                        /\ e.outcome = "written" /\ e.path # <<>>
                        /\ e.size = ExpectedSize(swapchain_info.extent)]_vars

\* C25 witness: a present of an unsupported swapchain that left no file and
\* took frame number 0, then a present that wrote frame number 1.
C25_Witness ==
    /\ Len(log) = 2
    /\ log[1].outcome = "unsupported_format" /\ log[1].frame_num = 0 /\ log[1].path = <<>>
    /\ log[2].outcome = "written" /\ log[2].frame_num = 1
    /\ \E device \in DeviceHandles :
           /\ IsSome(Lookup(device, log[1].swapchain))
           /\ Unwrap(Lookup(device, log[1].swapchain)).format \notin SupportedFormats
           /\ Unwrap(LAYER_DATA).devices[device].frame_counter = 2

(***************************************************************************)
(* Devices without a command pool.                                         *)
(***************************************************************************)
\* The registered devices that found a graphics queue and whose command pool
\* could not be created.
PoolFailed ==
    IF ~IsSome(LAYER_DATA) THEN {}
    ELSE {device \in DOMAIN Unwrap(LAYER_DATA).devices :
            /\ IsSome(Unwrap(LAYER_DATA).devices[device].graphics_queue)
            /\ ~IsSome(Unwrap(LAYER_DATA).devices[device].command_pool)}

\* C26: when vkCreateCommandPool fails in vkCreateDevice, vkCreateDevice still
\* returns SUCCESS and registers the device, and a later vkQueuePresentKHR on
\* a swapchain of that device decodes and writes the frame without making
\* any call of the barrier, whatever the driver would have answered to it.
C26_NoPoolNoBarrier ==
    /\ [][LAYER_DATA' # LAYER_DATA =>
            \A q \in QueueCreateLists, pool_result \in DriverErrors :
               (/\ IsSome(FindGraphicsFamily(q))
                /\ \E t \in Threads : vkCreateDevice(t, q, "fn", "SUCCESS", pool_result)) =>
                   /\ CreateDeviceResult("fn", "SUCCESS") = "SUCCESS"
                   /\ IsSome(LAYER_DATA')
                   /\ \E device \in DOMAIN Unwrap(LAYER_DATA').devices \ DOMAIN Unwrap(LAYER_DATA).devices :
                          /\ device \in live_devices'
                          /\ ~IsSome(Unwrap(LAYER_DATA').devices[device].command_pool)]_vars
    /\ [](\A device \in PoolFailed, pair \in PresentPairs :
             LET info == Lookup(device, pair.swapchain)
                 st == QueuePresent(<<pair>>)
             IN (/\ IsSome(info)
                 /\ Unwrap(info).format \in SupportedFormats
                 /\ CaptureFilter(Unwrap(LAYER_DATA).devices[device].frame_counter,
                                  Unwrap(LAYER_DATA).config) = "capture"
                 /\ pair.image_index < Len(Unwrap(info).images)
                 /\ pair.write_ok) =>
                    /\ ~st.stuck
                    /\ st.calls = <<>>
                    /\ st.drv = drv
                    /\ st.log[Len(st.log)].outcome = "written"
                    /\ st.log[Len(st.log)].size = ExpectedSize(Unwrap(info).extent))

\* C26 witness: a registered device without a command pool, and a frame of
\* one of its swapchains on file.
C26_Witness ==
    \E device \in PoolFailed, swapchain \in SwapchainArgs :
        /\ IsSome(Lookup(device, swapchain))
        /\ device \in live_devices
        /\ Unwrap(LAYER_DATA).devices[device].frame_counter = Len(log)
        /\ Len(log) >= 1
        /\ log[Len(log)].swapchain = swapchain
        /\ log[Len(log)].outcome = "written"

(***************************************************************************)
(* Device data.                                                            *)
(***************************************************************************)
\* C27: every registered device that has a command pool also has a graphics
\* queue and a graphics queue family index.
C27_PoolHasQueue ==
    IsSome(LAYER_DATA) =>
        \A device \in DOMAIN Unwrap(LAYER_DATA).devices :
            LET device_data == Unwrap(LAYER_DATA).devices[device]
            IN IsSome(device_data.command_pool) =>
                   /\ IsSome(device_data.graphics_queue)
                   /\ IsSome(device_data.graphics_queue_family)

\* C27 witness: a registered device with a command pool, the queue of family 1.
C27_Witness ==
    /\ IsSome(LAYER_DATA)
    /\ \E device \in DOMAIN Unwrap(LAYER_DATA).devices :
           LET device_data == Unwrap(LAYER_DATA).devices[device]
           IN /\ IsSome(device_data.command_pool)
              /\ device_data.graphics_queue = Some(get_device_queue(device, 1))
              /\ device_data.graphics_queue_family = Some(1)

(***************************************************************************)
(* Function discriminant.                                                  *)
(***************************************************************************)
\* The next GetInstanceProcAddr of the first type-47 structure of the chain
\* whose discriminant is LINK_INFO (0) and whose link record has one.
RECURSIVE C29_LinkInfoOnly(_)
C29_LinkInfoOnly(chain) ==
    IF chain = <<>> THEN None
    ELSE LET s == Head(chain)
         IN IF /\ s.s_type = 47 /\ s.function = 0 /\ IsSome(s.p_layer_info)
               /\ Unwrap(s.p_layer_info).next_get_instance_proc_addr # "null"
            THEN Some(Unwrap(s.p_layer_info).next_get_instance_proc_addr)
            ELSE C29_LinkInfoOnly(Tail(chain))

\* C29: vkCreateInstance takes the next GetInstanceProcAddr only from a
\* type-47 structure whose function discriminant is LINK_INFO (0); type-47
\* structures of other discriminants are skipped, and a chain that holds
\* only such structures makes vkCreateInstance fail.
C29_OnlyLinkInfo ==
    trial.chain.walked =>
        /\ trial.chain.found = C29_LinkInfoOnly(trial.chain.p_next)
        /\ ~IsSome(C29_LinkInfoOnly(trial.chain.p_next)) => trial.chain.result # "SUCCESS"

\* C29 for the chains whose type-47 structures all have discriminant 0.
C29_OnlyLinkInfoAmongLinkInfo ==
    (\A i \in 1..Len(trial.chain.p_next) : trial.chain.p_next[i].function = 0)
        => C29_OnlyLinkInfo

(***************************************************************************)
(* Command buffers of the barrier.                                         *)
(***************************************************************************)
\* C30: every command buffer the barrier allocates is freed before
\* vkQueuePresentKHR returns, also when beginning, ending, submitting or
\* waiting for it fails: between calls no command pool has a command buffer
\* of the layer outstanding.
C30_BarrierFreesCommandBuffer ==
    \A pool \in DOMAIN drv.pools : drv.pools[pool] = 0

\* C30 for the presents whose barrier the driver carries out without error.
C30_BarrierFreesCommandBufferUnlessFailed ==
    (\A i \in 1..Len(log) : log[i].outcome # "barrier_error")
        => C30_BarrierFreesCommandBuffer

(***************************************************************************)
(* Image index out of range.                                               *)
(***************************************************************************)
\* C31: vkQueuePresentKHR with an image index greater than or equal to the
\* image count of the presented swapchain reads no image memory, makes no
\* call of the barrier and writes no file for that swapchain, and leaves
\* the registered devices and their swapchains as they were.
C31_BadIndexSkipped ==
    \A device \in DeviceHandles, pair \in PresentPairs :
        LET info == Lookup(device, pair.swapchain)
            st == QueuePresent(<<pair>>)
            e == st.log[Len(st.log)]
        IN (IsSome(info) /\ pair.image_index >= Len(Unwrap(info).images)) =>
               /\ ~st.stuck
               /\ st.calls = <<>>
               /\ st.drv = drv
               /\ Len(st.log) = Len(log) + 1
               /\ e.swapchain = pair.swapchain
               /\ e.outcome \in {"bad_index", "skip_frequency", "skip_max_frames"}
               /\ e.path = <<>> /\ e.size = 0
               /\ DOMAIN st.data.devices = DOMAIN Unwrap(LAYER_DATA).devices
               /\ \A dev \in DOMAIN st.data.devices :
                      st.data.devices[dev].swapchains = Unwrap(LAYER_DATA).devices[dev].swapchains

\* C31 witness: a present with image index 2 of a registered swapchain of two
\* images, on a device with a command pool, was skipped.
C31_Witness ==
    \E device \in DeviceHandles, i \in 1..Len(log) :
        /\ log[i].outcome = "bad_index"
        /\ IsSome(Lookup(device, log[i].swapchain))
        /\ Len(Unwrap(Lookup(device, log[i].swapchain)).images) = 2
        /\ IsSome(Unwrap(LAYER_DATA).devices[device].command_pool)
        /\ \A pool \in DOMAIN drv.pools : drv.pools[pool] = 0

(***************************************************************************)
(* Round-robin acquire.                                                    *)
(***************************************************************************)
\* The index vkAcquireNextImageKHR returns for a registered swapchain is the
\* number of presents of that swapchain so far, modulo its image count.
C32_IndexFollowsOwnPresents(device, swapchain) ==
    LET N == Unwrap(Lookup(device, swapchain)).image_count
        answer == AcquireNextImage(device, swapchain)
    IN answer.res = "SUCCESS" /\ answer.n = Len(PresentsOf(swapchain)) % N

\* C32: acquire is round-robin: on a swapchain of N images, whatever other
\* swapchains of the same device are presented in between, each
\* vkAcquireNextImageKHR after a present of the swapchain returns the
\* previously acquired index plus one modulo N, so that the indices run
\* 0, 1, ..., N-1, 0, ... with the presents of that swapchain.
C32_RoundRobinPerSwapchain ==
    \A device \in DeviceHandles, swapchain \in SwapchainArgs :
        IsSome(Lookup(device, swapchain)) => C32_IndexFollowsOwnPresents(device, swapchain)

\* C32 for a swapchain whose presents are all the presents its device has
\* counted.
C32_RoundRobinWhenAlone ==
    \A device \in DeviceHandles, swapchain \in SwapchainArgs :
        (/\ IsSome(Lookup(device, swapchain))
         /\ Unwrap(LAYER_DATA).devices[device].frame_counter = Len(PresentsOf(swapchain)))
            => C32_IndexFollowsOwnPresents(device, swapchain)

(***************************************************************************)
(* Frame file names.                                                       *)
(***************************************************************************)
\* C33: within one process and one output directory no two presents that
\* each write a frame file write to the same path, also when a device
\* created after another was destroyed presents frames.
C33_NoPathWrittenTwice ==
    \A i, j \in 1..Len(log) :
        (i < j /\ log[i].outcome = "written" /\ log[j].outcome = "written")
            => log[i].path # log[j].path

\* C33 for the frames written while one and the same device was registered
\* throughout: the frame numbers of the log never start again.
C33_NoPathWrittenTwiceByOneDevice ==
    (\A i, j \in 1..Len(log) : i < j => log[i].frame_num < log[j].frame_num)
        => C33_NoPathWrittenTwice

(***************************************************************************)
(* PNG fallback.                                                           *)
(***************************************************************************)
\* C34: with output format png every captured frame n is written to exactly
\* <output_dir>/frame_<n zero-padded to 6>.ppm: the fallback to PPM changes
\* the extension only and leaves the directory part of the path as it is,
\* also for an output directory whose name contains ".png".
C34_PngFallbackKeepsDirectory ==
    LayerConfig_default.output_format = "Png" =>
        \A i \in 1..Len(log) :
            log[i].outcome = "written" =>
                log[i].path = LayerConfig_default.output_dir \o <<"/", "frame_">>
                                  \o Chars(ZeroPad(Decimal(log[i].frame_num), 6))
                                  \o <<".ppm">>

(***************************************************************************)
(* Capture frequency 0.                                                    *)
(***************************************************************************)
\* C35: when VK_CAPTURE_FREQUENCY resolves to 0, vkQueuePresentKHR takes no
\* remainder by zero and captures frames exactly as with frequency 1: every
\* present is filtered as the configuration with frequency 1 filters it,
\* and none is skipped for the frequency.
C35_FrequencyZeroAsOne ==
    LayerConfig_default.capture_frequency = 0 =>
        LET one == [LayerConfig_default EXCEPT !.capture_frequency = 1]
        IN /\ \A frame_num \in 0..MaxFrames :
                  CaptureFilter(frame_num, LayerConfig_default) = CaptureFilter(frame_num, one)
           /\ \A i \in 1..Len(log) :
                  /\ log[i].outcome # "skip_frequency"
                  /\ log[i].outcome = "skip_max_frames"
                         <=> CaptureFilter(log[i].frame_num, one) = "skip_max_frames"

\* C35 witness: frequency 0 and max_frames 1; frame 0 is on file and frame 1
\* was left out for the limit.
C35_Witness ==
    /\ LayerConfig_default.capture_frequency = 0
    /\ Len(log) = 2
    /\ log[1].outcome = "written" /\ log[1].frame_num = 0
    /\ log[2].outcome = "skip_max_frames" /\ log[2].frame_num = 1

\* C36: while a thread is inside the capture of vkQueuePresentKHR, the
\* swapchain whose mapped memory it reads is still in the swapchain map of its
\* device, and that device is still in the layer's device map, whatever
\* vkDestroySwapchainKHR, vkDestroyDevice and vkDestroyInstance the other
\* threads call in between.
C36_CaptureReadsRegistered ==
    IsSome(capturing) =>
        /\ IsSome(LAYER_DATA)
        /\ Unwrap(capturing).device \in DOMAIN Unwrap(LAYER_DATA).devices
        /\ Unwrap(capturing).pair.swapchain \in
               DOMAIN Unwrap(LAYER_DATA).devices[Unwrap(capturing).device].swapchains

\* C36: a capture is in progress on one thread while another thread is
\* running, the device is live, and a destroy handler waits for LAYER_DATA.
C36_Witness ==
    /\ IsSome(capturing)
    /\ status[Unwrap(capturing).thread] = "capturing"
    /\ \E u \in Threads : u # Unwrap(capturing).thread /\ Running(u)
    /\ Unwrap(capturing).device \in live_devices
    /\ ~LayerDataFree
    /\ Unwrap(capturing).pair.swapchain \in RegisteredSwapchains

====
